---- MODULE Spec2Model ----
(***************************************************************************)
(* A model of the iterative reconstruction core of ToMoBAR:                *)
(*   - the ordered-subsets index table  (astra_wrappers.py, AstraBase)     *)
(*   - the projector's constructor      (astra_wrappers.py, AstraBase)     *)
(*   - the configuration resolver       (supp/dicts.py, dicts_check)       *)
(*   - the FISTA and ADMM solvers       (methodsIR.py, RecToolsIR)         *)
(***************************************************************************)
EXTENDS Integers, Naturals, Sequences, FiniteSets, TLC

(***************************************************************************)
(* Bounds of the model.                                                    *)
(***************************************************************************)
MaxAngles == 6
MaxOS == 7
\* the caller departs from the plain call (2D, LS, no axis swap, no optional
\* key) in at most MaxChoices choices
MaxChoices == 2
\* outer iterations of a solver run that are followed
MaxIter == 2
\* calls the caller makes with the same dictionaries
MaxCalls == 2
\* outer iterations of a long solver run that are followed
LongRun == 153
\* the object sizes are 2..MaxObjSize
MaxObjSize == 2
\* the geometry of the solver runs: angles, detector columns, detector rows (3D)
DimAngles == 3
DimDetH == 7
DimDetV == 5

VARIABLES
    \* ---- AstraBase: the ordered-subsets index table ----
    os_pc,          \* position of the projector construction
    angles_tot,     \* np.size(self.angles_vec)
    ordsub_number,  \* self.ordsub_number
    NumbProjBins,   \* self.NumbProjBins
    newInd_Vec,     \* self.newInd_Vec: [0..ordsub_number-1 -> row], rows 1-indexed
    os_sub_ind,     \* loop variable sub_ind of _setOS_indices
    proj_ind,       \* loop variable of _setOS_indices
    ind_sel,        \* running offset of _setOS_indices
    proj_indVec,    \* per subset: the index vector the projector geometry is built from
    indVec,         \* the index vector the solver slices the data with (last selected)
    power,          \* powermethod: the operator it projects with, its angles, the rows of the weights
    \* ---- RecToolsIR: a solver call ----
    pc,             \* position of the caller / of the running method
    choices,        \* number of choices the caller has made
    method,         \* the method called: FISTA, ADMM, SIRT, CGLS or power
    self,           \* the RecToolsIR object
    data,           \* _data_
    algorithm,      \* _algorithm_
    regularisation, \* _regularisation_
    passed,         \* the object and the dictionaries as they were when the call was made
    error,          \* the exception the call has raised ("none" if none)
    ret,            \* the value the call has returned
    power_runs,     \* the values the completed runs of powermethod returned, in order
    proj_calls,     \* number of forward / backward projections made
    L_const_inv,    \* FISTA: 1.0 / lipschitz_const
    X,              \* the current estimate: shape, a representative element, origin
    X_t,            \* FISTA: the extrapolated estimate (its shape)
    t,              \* FISTA: the momentum scalar, as the number of its updates
    iter_no,        \* the outer iteration
    sub_ind,        \* FISTA: the subset of the current step
    nsteps,         \* number of completed subset steps (FISTA) or iterations (ADMM)
    step,           \* what the last step did: step size, robust weight, regularisers called
    r,              \* FISTA: the ring vector (a representative element)
    r_x,            \* FISTA: the extrapolated ring vector
    r_old,          \* FISTA: the array named r_old
    vec,            \* FISTA: the residuals summed into vec: subsets, and the X_t they are of
    horizon,        \* number of outer iterations the run is followed for
    externals,      \* what the projector, gmres and the regularisers may do besides answering
    iter_end,       \* what the end of the last outer iteration did
    printed,        \* the messages the call has printed
    z,              \* ADMM: the iteration that wrote z, counted from 1 (0: the zeros it starts as)
    u,              \* ADMM: the iteration that wrote u, counted from 1 (0: the zeros it starts as)
    written,        \* the caller's arrays the running method has written into in place
    calls_left,     \* number of further calls the caller makes with the same dictionaries
    history,        \* the earlier calls: the method, and the _algorithm_ it was handed
    \* ---- AstraBase.__init__ ----
    ctor_pc,        \* position of the constructor call
    ctor_args,      \* the arguments of the constructor call
    astra           \* the object the constructor call has yielded, or its exception

vars_solver == <<pc, choices, method, self, data, algorithm, regularisation,
                 passed, error, ret, power_runs, proj_calls, L_const_inv, X, X_t, t,
                 iter_no, sub_ind, nsteps, step, r, r_x, r_old, vec, horizon, externals,
                 iter_end, printed, z, u, written, calls_left, history>>

vars_more == <<z, u, written, calls_left, history>>

vars_loop == <<r, r_x, r_old, vec, horizon, externals, iter_end, printed>>

vars_os == <<os_pc, angles_tot, ordsub_number, NumbProjBins, newInd_Vec,
             os_sub_ind, proj_ind, ind_sel, proj_indVec, indVec, power>>

vars_ctor == <<ctor_pc, ctor_args, astra>>

vars == <<vars_os, vars_solver, vars_ctor>>

(***************************************************************************)
(* Helpers on sequences.                                                   *)
(***************************************************************************)
Zeros(n) == [i \in 1..n |-> 0]

ButLast(row) == SubSeq(row, 1, Len(row) - 1)

RECURSIVE Concat(_, _)
\* rows f[0] \o f[1] \o ... \o f[n-1]
Concat(f, n) == IF n = 0 THEN << >> ELSE Concat(f, n - 1) \o f[n - 1]

Occurrences(seq, x) == Cardinality({i \in DOMAIN seq : seq[i] = x})

(***************************************************************************)
(* AstraBase._setOS_indices                                                *)
(***************************************************************************)
\* (int)(np.ceil(float(angles_tot) / float(self.ordsub_number)))
CeilDivMutant(n, k) == n \div k
CeilDiv(n, k) == (n + k - 1) \div k

\* indexS = ind_sel + sub_ind ; if indexS < angles_tot
SlotIsFilledMutant(sel, s, n) == sel + s <= n
SlotIsFilled(sel, s, n) == sel + s < n

\* indVec = newInd_Vec[sub_ind, :]
\* if indVec[NumbProjBins - 1] == 0: indVec = indVec[:-1]
TrimRow(row, bins) == IF row[bins] = 0 THEN ButLast(row) ELSE row

\* RecToolsIR.FISTA, lines 354-356, the solver's own copy of the rule:
\* indVec = self.AtoolsOS.newInd_Vec[sub_ind,:]
\* if (indVec[self.AtoolsOS.NumbProjBins-1] == 0): indVec = indVec[:-1]
SolverIndVecMutant(table, s, bins) == table[s]
SolverIndVec(table, s, bins) ==
    IF table[s][bins] = 0 THEN SubSeq(table[s], 1, Len(table[s]) - 1) ELSE table[s]


(***************************************************************************)
(* Python values.  Every value is a record of the same five fields, so that *)
(* any two values can be compared:                                          *)
(*   None, a number n/d, a bool, a string (its characters), an array (its   *)
(*   shape).                                                                *)
(***************************************************************************)
NoneV == [k |-> "None", n |-> 0, d |-> 1, s |-> << >>, a |-> << >>]
Num(n, d) == [k |-> "num", n |-> n, d |-> d, s |-> << >>, a |-> << >>]
Whole(n) == Num(n, 1)
Bool(b) == [k |-> "bool", n |-> IF b THEN 1 ELSE 0, d |-> 1, s |-> << >>, a |-> << >>]
Str(chars) == [k |-> "str", n |-> 0, d |-> 1, s |-> chars, a |-> << >>]
Arr(shape) == [k |-> "array", n |-> 0, d |-> 1, s |-> << >>, a |-> shape]

TupleV(items) == [k |-> "tuple", n |-> 0, d |-> 1, s |-> << >>, a |-> items]

IsNone(v) == v.k = "None"

\* Python truth value of v (if v:)
Truthy(v) ==
    CASE v.k = "None" -> FALSE
      [] v.k = "bool" -> v.n = 1
      [] v.k = "num" -> v.n # 0
      [] v.k = "str" -> v.s # << >>
      [] OTHER -> TRUE

\* v > i for a number v and an integer i
GreaterThan(v, i) == v.n > i * v.d

\* v == i for an integer i (True == 1 and False == 0 in Python)
EqualsInt(v, i) == v.k \in {"num", "bool"} /\ v.n = i * v.d

\* v == 'chars'
EqualsStr(v, chars) == v.k = "str" /\ v.s = chars

\* 'sub' in text
IsSubstring(sub, text) ==
    \E i \in 0..(Len(text) - Len(sub)) : SubSeq(text, i + 1, i + Len(sub)) = sub

RECURSIVE Product(_)
Product(shape) == IF shape = << >> THEN 1 ELSE Head(shape) * Product(Tail(shape))

\* np.size(v): 1 for None and for a scalar, the element count of an array
NpSize(v) == IF v.k = "array" THEN Product(v.a) ELSE 1

\* xp.swapaxes(arr, i, j) on the shape of arr (axes are 0-based)
SwapAxes(v, i, j) ==
    Arr([x \in DOMAIN v.a |->
            IF x = i + 1 THEN v.a[j + 1]
            ELSE IF x = j + 1 THEN v.a[i + 1]
            ELSE v.a[x]])

\* 1.0 / v
Reciprocal(v) == Num(v.d, v.n)

(***************************************************************************)
(* Python dictionaries: functions from the keys present to values.         *)
(***************************************************************************)
EmptyDict == [x \in {} |-> NoneV]

Has(dict, key) == key \in DOMAIN dict

\* dict.get(key)
Get(dict, key) == IF key \in DOMAIN dict THEN dict[key] ELSE NoneV

\* dict[key] = v
Put(dict, key, v) == [x \in (DOMAIN dict) \cup {key} |-> IF x = key THEN v ELSE dict[x]]

\* if key not in dict: dict[key] = v
PutIfAbsent(dict, key, v) == IF key \in DOMAIN dict THEN dict ELSE Put(dict, key, v)

(***************************************************************************)
(* Strings the code compares with or the caller may pass.                  *)
(***************************************************************************)
S_ENABLE == <<"E", "N", "A", "B", "L", "E">>
S_on == <<"o", "n">>
S_gpu == <<"g", "p", "u">>
S_Huber == <<"H", "u", "b", "e", "r">>
S_Perona == <<"P", "e", "r", "o", "n", "a">>
S_Tukey == <<"T", "u", "k", "e", "y">>
S_ROF_TV == <<"R", "O", "F", "_", "T", "V">>
S_FGP_TV == <<"F", "G", "P", "_", "T", "V">>
S_PD_TV == <<"P", "D", "_", "T", "V">>
S_SB_TV == <<"S", "B", "_", "T", "V">>
S_LLT_ROF == <<"L", "L", "T", "_", "R", "O", "F">>
S_TGV == <<"T", "G", "V">>
S_NDF == <<"N", "D", "F">>
S_Diff4th == <<"D", "i", "f", "f", "4", "t", "h">>
S_NLTV == <<"N", "L", "T", "V">>
S_WAVELETS == <<"W", "A", "V", "E", "L", "E", "T", "S">>
\* a tag that names no regulariser
S_TV == <<"T", "V">>

(***************************************************************************)
(* supp/dicts.py: dicts_check(self, _data_, _algorithm_, _regularisation_,  *)
(* method_run).  A call state st carries the three dictionaries, the solver *)
(* object, the pending exception, the value returned by the last call, the *)
(* values returned by the power-method runs and the count of projector     *)
(* calls.                                                                  *)
(***************************************************************************)
Raise(st, e) == [st EXCEPT !.err = e]

\* lines 81-92: the two checks of the input data
DC_ValidateMutant(st) ==
    IF IsNone(Get(st.data, "projection_norm_data"))
    THEN Raise(st, "NameError")
    ELSE st
DC_Validate(st) ==
    IF IsNone(Get(st.data, "projection_norm_data"))
    THEN Raise(st, "NameError")
    ELSE IF /\ IsNone(Get(st.data, "projection_raw_data"))
            /\ st.self.datafidelity \in {"PWLS", "SWLS"}
         THEN Raise(st, "NameError")
         ELSE st

RECURSIVE SwapAll(_, _)
\* lines 94-102: for swap_tuple in self.data_swap_list
SwapAll(d, swap_list) ==
    IF swap_list = << >> THEN d
    ELSE LET swap_tuple == Head(swap_list)
             d1 == Put(d, "projection_norm_data",
                       SwapAxes(d["projection_norm_data"], swap_tuple[1], swap_tuple[2]))
             d2 == IF ~IsNone(Get(d, "projection_raw_data"))
                   THEN Put(d1, "projection_raw_data",
                            SwapAxes(d["projection_raw_data"], swap_tuple[1], swap_tuple[2]))
                   ELSE d1
         IN SwapAll(IF swap_tuple = << >> THEN d ELSE d2, Tail(swap_list))

DC_Swap(st) ==
    IF st.err # "none" THEN st
    ELSE [st EXCEPT !.data = SwapAll(st.data, st.self.data_swap_list)]

\* lines 104-106
DC_OSnumberMutant(st) ==
    IF st.err # "none" THEN st
    ELSE LET d1 == Put(st.data, "OS_number", Whole(1))
         IN [st EXCEPT !.data = d1, !.self.OS_number = d1["OS_number"]]
DC_OSnumber(st) ==
    IF st.err # "none" THEN st
    ELSE LET d1 == IF IsNone(Get(st.data, "OS_number"))
                   THEN Put(st.data, "OS_number", Whole(1))
                   ELSE st.data
         IN [st EXCEPT !.data = d1, !.self.OS_number = d1["OS_number"]]

\* lines 108-128
DC_FistaData(st, method_run) ==
    IF st.err # "none" \/ method_run # "FISTA" THEN st
    ELSE LET d1 == IF st.self.datafidelity = "SWLS"
                   THEN Put(st.data, "beta_SWLS", Arr(<<st.self.DetectorsDimH>>))
                   ELSE st.data
             d2 == PutIfAbsent(d1, "huber_threshold", NoneV)
             d3 == PutIfAbsent(d2, "studentst_threshold", NoneV)
             d4 == PutIfAbsent(d3, "ringGH_lambda", NoneV)
             d5 == PutIfAbsent(d4, "ringGH_accelerate", Whole(50))
         IN [st EXCEPT !.data = d5]

\* lines 134-142: the default number of iterations of the direct methods
DefaultIterationsMutant(method_run) ==
    CASE method_run = "SIRT" -> Whole(200)
      [] method_run = "CGLS" -> Whole(200)
      [] method_run \in {"power", "ADMM"} -> Whole(15)
      [] method_run = "Landweber" -> Whole(1500)
DefaultIterations(method_run) ==
    CASE method_run = "SIRT" -> Whole(200)
      [] method_run = "CGLS" -> Whole(30)
      [] method_run \in {"power", "ADMM"} -> Whole(15)
      [] method_run = "Landweber" -> Whole(1500)

\* lines 132-151
DC_Algorithm(st, method_run) ==
    IF st.err # "none" THEN st
    ELSE LET a1 == IF method_run \in {"SIRT", "CGLS", "power", "ADMM", "Landweber"}
                   THEN LET b1 == Put(st.alg, "lipschitz_const", Whole(0))
                            b2 == IF IsNone(Get(b1, "iterations"))
                                  THEN Put(b1, "iterations", DefaultIterations(method_run))
                                  ELSE b1
                        IN IF IsNone(Get(b2, "tau_step_lanweber"))
                           THEN Put(b2, "tau_step_lanweber", Num(1, 100000))
                           ELSE b2
                   ELSE st.alg
             a2 == IF method_run = "FISTA" /\ IsNone(Get(a1, "iterations"))
                   THEN IF GreaterThan(st.data["OS_number"], 1)
                        THEN Put(a1, "iterations", Whole(20))
                        ELSE Put(a1, "iterations", Whole(400))
                   ELSE a1
         IN [st EXCEPT !.alg = a2]

\* lines 155-178
DC_AlgorithmRest(st, method_run) ==
    IF st.err # "none" THEN st
    ELSE LET a1 == IF method_run = "ADMM"
                   THEN PutIfAbsent(PutIfAbsent(st.alg, "ADMM_rho_const", Whole(1000)),
                                    "ADMM_relax_par", Whole(1))
                   ELSE st.alg
             a2 == PutIfAbsent(a1, "initialise", NoneV)
             a3 == PutIfAbsent(a2, "nonnegativity", Bool(FALSE))
             a4 == PutIfAbsent(a3, "recon_mask_radius", Whole(1))
             a5 == PutIfAbsent(a4, "tolerance", Whole(0))
             a6 == PutIfAbsent(a5, "verbose", Bool(FALSE))
         IN [st EXCEPT !.alg = a6,
                       !.self.nonneg_regul =
                            IF Truthy(a3["nonnegativity"]) THEN Whole(1) ELSE Whole(0)]

\* lines 180-239
DC_Regularisation(st, method_run) ==
    IF st.err # "none" THEN st
    ELSE LET r0 == IF st.reg = EmptyDict THEN Put(st.reg, "method", NoneV) ELSE st.reg
         IN IF method_run \notin {"FISTA", "ADMM"} THEN [st EXCEPT !.reg = r0]
            ELSE
            LET r1 == PutIfAbsent(r0, "regul_param", Num(1, 1000))
                r2 == PutIfAbsent(r1, "regul_param2", Num(1, 1000))
                r3 == PutIfAbsent(r2, "iterations", Whole(150))
                r4 == PutIfAbsent(r3, "tolerance", Whole(0))
                r5 == PutIfAbsent(r4, "time_marching_step", Num(5, 1000))
                r6 == PutIfAbsent(r5, "TGV_alpha1", Whole(1))
                r7 == PutIfAbsent(r6, "TGV_alpha2", Whole(2))
                r8 == PutIfAbsent(r7, "PD_LipschitzConstant", Whole(12))
                r9 == PutIfAbsent(r8, "edge_threhsold", Num(1, 1000))
                r10 == PutIfAbsent(r9, "NDF_penalty", Str(S_Huber))
                ndf == r10["NDF_penalty"]
                r11 == PutIfAbsent(r10, "NLTV_H_i", Whole(0))
                r12 == PutIfAbsent(r11, "NLTV_H_j", Whole(0))
                r13 == PutIfAbsent(r12, "NLTV_Weights", Whole(0))
                r14 == PutIfAbsent(r13, "methodTV", Whole(0))
                r15 == PutIfAbsent(r14, "device_regulariser", Str(S_gpu))
            IN IF EqualsStr(ndf, S_Huber)
               THEN [st EXCEPT !.reg = r15, !.self.NDF_method = Whole(1)]
               ELSE IF EqualsStr(ndf, S_Perona)
               THEN [st EXCEPT !.reg = r15, !.self.NDF_method = Whole(2)]
               ELSE IF EqualsStr(ndf, S_Tukey)
               THEN [st EXCEPT !.reg = r15, !.self.NDF_method = Whole(3)]
               ELSE [st EXCEPT !.reg = r9, !.err = "NameError"]

RECURSIVE DictsCheck(_, _, _)

\* methodsIR.py, RecToolsIR.powermethod (lines 235-273); pm is the norm s that
\* the power iteration on the external projector arrives at.  One forward
\* projection, then one backward and one forward projection per iteration.
PowerMethod(st, pm) ==
    LET c == DictsCheck(st, "power", pm)
    IN IF c.err # "none" THEN c
       ELSE [c EXCEPT !.ret = Whole(pm),
                      !.power_runs = Append(c.power_runs, Whole(pm)),
                      !.proj_calls = c.proj_calls + 1 + 2 * c.alg["iterations"].n]

\* lines 152-154: _algorithm_["lipschitz_const"] = self.powermethod(_data_)
DC_LipschitzMutant(st, pm) ==
    IF st.err # "none" THEN st
    ELSE IF ~Has(st.alg, "lipschitz_const")
    THEN LET run == PowerMethod([st EXCEPT !.alg = EmptyDict, !.reg = EmptyDict], pm)
         IN IF run.err # "none"
            THEN [run EXCEPT !.alg = st.alg, !.reg = st.reg]
            ELSE [run EXCEPT !.alg = Put(st.alg, "lipschitz_const", Whole(1)), !.reg = st.reg]
    ELSE st
DC_Lipschitz(st, pm) ==
    IF st.err # "none" THEN st
    ELSE IF IsNone(Get(st.alg, "lipschitz_const"))
    THEN LET run == PowerMethod([st EXCEPT !.alg = EmptyDict, !.reg = EmptyDict], pm)
         IN IF run.err # "none"
            THEN [run EXCEPT !.alg = st.alg, !.reg = st.reg]
            ELSE [run EXCEPT !.alg = Put(st.alg, "lipschitz_const", run.ret), !.reg = st.reg]
    ELSE st

\* dicts_check, lines 81-240, in the order of the code
DictsCheck(st, method_run, pm) ==
    LET s1 == DC_Validate(st)
        s2 == DC_Swap(s1)
        s3 == DC_OSnumber(s2)
        s4 == DC_FistaData(s3, method_run)
        s5 == DC_Algorithm(s4, method_run)
        s6 == DC_Lipschitz(s5, pm)
        s7 == DC_AlgorithmRest(s6, method_run)
    IN DC_Regularisation(s7, method_run)

(***************************************************************************)
(* methodsIR.py: the RecToolsIR object and its geometry.                   *)
(***************************************************************************)
\* RecToolsIR.__init__ (lines 152-174); data_swap_list, OS_number,
\* nonneg_regul and NDF_method are the attributes dicts_check reads and writes
Construct(DetectorsDimH, DetectorsDimV, angles_number, ObjSize, datafidelity, swaps) ==
    [ObjSize |-> ObjSize,
     datafidelity |-> datafidelity,
     DetectorsDimV |-> DetectorsDimV,
     DetectorsDimH |-> DetectorsDimH,
     angles_number |-> angles_number,
     geom |-> IF IsNone(DetectorsDimV) THEN "2D" ELSE "3D",
     data_swap_list |-> swaps,
     OS_number |-> NoneV,
     nonneg_regul |-> NoneV,
     NDF_method |-> NoneV]

\* the shape of an image (2D) or a volume (3D) of the geometry
GeomShape(obj) ==
    IF obj.geom = "2D" THEN <<obj.ObjSize, obj.ObjSize>>
    ELSE <<obj.DetectorsDimV.n, obj.ObjSize, obj.ObjSize>>

\* the shape of the projection data in the axis order the solvers work in
CanonicalDataShape(obj) ==
    IF obj.geom = "2D" THEN <<obj.angles_number, obj.DetectorsDimH>>
    ELSE <<obj.DetectorsDimV.n, obj.angles_number, obj.DetectorsDimH>>

RECURSIVE Reverse(_)
Reverse(seq) == IF seq = << >> THEN << >> ELSE Reverse(Tail(seq)) \o <<Head(seq)>>

\* the projection array as the caller holds it: data_swap_list brings it to
\* the canonical axis order
SuppliedData(obj) ==
    SwapAll([x \in {"projection_norm_data"} |-> Arr(CanonicalDataShape(obj))],
            Reverse(obj.data_swap_list))["projection_norm_data"]

ElemValues == {-1, 0, 1}
PowerValues == {2, 3}

UnsetArray == [shape |-> << >>, v |-> 0, src |-> "unset"]
NoStep ==
    [L |-> NoneV, weight |-> "none", prox_ran |-> FALSE, prox |-> << >>,
     ring_term |-> FALSE, res_at |-> 0, info |-> 0,
     sub |-> 0, seen |-> << >>, ops |-> << >>, read |-> 0, t_old |-> 0,
     weights |-> << >>, res |-> 0, mult |-> << >>, backprojs |-> 0,
     rhs |-> << >>, x_hat |-> << >>, prox_in |-> << >>, dual |-> << >>,
     wavelet_par |-> << >>]

\* the values of an element of the residual that a robust weight is applied to
ResValues == {-2, 0, 2}

\* the values of an element of the ring vector before the threshold
RingValues == {-2, -1, 0, 1, 2}
\* the values of the mean-normalised norm of the change, norm(X - X_old)/N
NormValues == {0, 1, 2}

NoVec == [subsets |-> {}, at |-> 0]
NoIterEnd ==
    [tested |-> FALSE, nrm |-> 0, stopped |-> FALSE, ring_ran |-> FALSE,
     r_raw |-> 0, r_new |-> 0, r_old |-> 0, r_prev |-> 0, r_end |-> 0,
     t_old |-> 0, t |-> 0]

(***************************************************************************)
(* The caller: builds the three dictionaries and calls a method.           *)
(***************************************************************************)
DataOptions(obj) ==
    {<<"projection_raw_data", SuppliedData(obj)>>,
     <<"OS_number", Whole(1)>>, <<"OS_number", Whole(2)>>,
     <<"huber_threshold", Whole(1)>>,
     <<"studentst_threshold", Whole(1)>>}

AlgorithmOptions(obj) ==
    {<<"iterations", Whole(1)>>, <<"iterations", Whole(MaxIter)>>,
     <<"lipschitz_const", Whole(5)>>,
     <<"initialise", Arr(GeomShape(obj))>>,
     <<"initialise", Arr(<<Product(GeomShape(obj))>>)>>,
     <<"initialise", Arr(<<obj.ObjSize, obj.ObjSize, obj.ObjSize>>)>>,
     <<"nonnegativity", Bool(TRUE)>>, <<"nonnegativity", Str(S_ENABLE)>>,
     <<"mask_diameter", NoneV>>,
     <<"verbose", Str(S_on)>>,
     <<"ADMM_rho_const", Whole(10)>>,
     <<"ADMM_relax_par", Whole(2)>>}

RegularisationOptions ==
    {<<"method", Str(S_FGP_TV)>>, <<"method", Str(S_TV)>>,
     <<"regul_param", Num(1, 100)>>,
     <<"iterations", Whole(10)>>,
     <<"NDF_penalty", Str(S_Perona)>>, <<"NDF_penalty", Str(S_TV)>>}

Methods == {"FISTA", "ADMM", "SIRT", "CGLS", "power"}

CallerSetsData ==
    /\ pc = "caller"
    /\ choices < MaxChoices
    /\ \E o \in DataOptions(self) :
          /\ ~Has(data, o[1])
          /\ data' = Put(data, o[1], o[2])
    /\ choices' = choices + 1
    /\ UNCHANGED <<pc, method, self, algorithm, regularisation, passed, error, ret,
                   power_runs, proj_calls, L_const_inv, X, X_t, t, iter_no, sub_ind,
                   nsteps, step>>
    /\ UNCHANGED vars_loop
    /\ UNCHANGED vars_more
    /\ UNCHANGED <<vars_os, vars_ctor>>

CallerSetsAlgorithm ==
    /\ pc = "caller"
    /\ choices < MaxChoices
    /\ \E o \in AlgorithmOptions(self) :
          /\ ~Has(algorithm, o[1])
          /\ algorithm' = Put(algorithm, o[1], o[2])
    /\ choices' = choices + 1
    /\ UNCHANGED <<pc, method, self, data, regularisation, passed, error, ret,
                   power_runs, proj_calls, L_const_inv, X, X_t, t, iter_no, sub_ind,
                   nsteps, step>>
    /\ UNCHANGED vars_loop
    /\ UNCHANGED vars_more
    /\ UNCHANGED <<vars_os, vars_ctor>>

CallerSetsRegularisation ==
    /\ pc = "caller"
    /\ choices < MaxChoices
    /\ \E o \in RegularisationOptions :
          /\ ~Has(regularisation, o[1])
          /\ regularisation' = Put(regularisation, o[1], o[2])
    /\ choices' = choices + 1
    /\ UNCHANGED <<pc, method, self, data, algorithm, passed, error, ret,
                   power_runs, proj_calls, L_const_inv, X, X_t, t, iter_no, sub_ind,
                   nsteps, step>>
    /\ UNCHANGED vars_loop
    /\ UNCHANGED vars_more
    /\ UNCHANGED <<vars_os, vars_ctor>>

\* the caller calls SIRT, CGLS, powermethod, FISTA or ADMM of the object
Call ==
    /\ pc = "caller"
    /\ \E m \in Methods : method' = m
    /\ passed' = [self |-> self, data |-> data, alg |-> algorithm, reg |-> regularisation]
    /\ pc' = "dicts_check"
    /\ UNCHANGED <<choices, self, data, algorithm, regularisation, error, ret,
                   power_runs, proj_calls, L_const_inv, X, X_t, t, iter_no, sub_ind,
                   nsteps, step>>
    /\ UNCHANGED vars_loop
    /\ UNCHANGED vars_more
    /\ UNCHANGED <<vars_os, vars_ctor>>

\* the call is over, by a return or by an exception, and the caller goes on to
\* call a method of the same object with the same three dictionaries
CallerCallsAgain ==
    /\ pc \in {"returned", "raised"}
    /\ calls_left > 0
    /\ calls_left' = calls_left - 1
    /\ history' = Append(history, [method |-> method, alg |-> passed.alg])
    /\ passed' = [self |-> self, data |-> data, alg |-> algorithm, reg |-> regularisation]
    /\ pc' = "caller"
    /\ method' = "none"
    /\ error' = "none"
    /\ ret' = UnsetArray
    /\ power_runs' = << >>
    /\ proj_calls' = 0
    /\ L_const_inv' = NoneV
    /\ X' = UnsetArray
    /\ X_t' = [shape |-> << >>, wrote |-> 0]
    /\ t' = 0
    /\ iter_no' = 0
    /\ sub_ind' = 0
    /\ nsteps' = 0
    /\ step' = NoStep
    /\ r' = 0
    /\ r_x' = 0
    /\ r_old' = 0
    /\ vec' = NoVec
    /\ iter_end' = NoIterEnd
    /\ printed' = {}
    /\ z' = 0
    /\ u' = 0
    /\ written' = {}
    /\ UNCHANGED <<choices, self, data, algorithm, regularisation, horizon, externals>>
    /\ UNCHANGED <<vars_os, vars_ctor>>

(***************************************************************************)
(* The first statement of every method: the call of dicts_check            *)
(* (methodsIR.py lines 190, 213, 235, 292, 508).  SIRT, CGLS and            *)
(* powermethod pass no regularisation dictionary.                          *)
(***************************************************************************)
EntryState ==
    [data |-> data, alg |-> algorithm,
     reg |-> IF method \in {"FISTA", "ADMM"} THEN regularisation ELSE EmptyDict,
     self |-> self, err |-> "none", ret |-> NoneV,
     power_runs |-> power_runs, proj_calls |-> proj_calls]

BodyOf(m) ==
    CASE m = "FISTA" -> "fista_init"
      [] m = "ADMM" -> "admm_init"
      [] m \in {"SIRT", "CGLS"} -> "astra_run"
      [] m = "power" -> "returned"

CheckDicts ==
    /\ pc = "dicts_check"
    /\ \E pm \in PowerValues :
          \E out \in {IF method = "power"
                    THEN PowerMethod(EntryState, pm)
                    ELSE DictsCheck(EntryState, method, pm)} :
             /\ data' = out.data
             /\ algorithm' = out.alg
             /\ regularisation' =
                    IF method \in {"FISTA", "ADMM"} THEN out.reg ELSE regularisation
             /\ self' = out.self
             /\ error' = out.err
             /\ ret' = IF out.err = "none" /\ method = "power"
                       THEN [shape |-> << >>, v |-> out.ret.n, src |-> "power"]
                       ELSE ret
             /\ power_runs' = out.power_runs
             /\ proj_calls' = out.proj_calls
             /\ pc' = IF out.err # "none" THEN "raised" ELSE BodyOf(method)
    /\ UNCHANGED <<choices, method, passed, L_const_inv, X, X_t, t, iter_no,
                   sub_ind, nsteps, step>>
    /\ UNCHANGED vars_loop
    /\ UNCHANGED vars_more
    /\ UNCHANGED <<vars_os, vars_ctor>>

\* SIRT / CGLS, lines 193-197 and 216-220: the reconstruction is ASTRA's
AstraRun ==
    /\ pc = "astra_run"
    /\ \E g \in ElemValues :
          ret' = [shape |-> GeomShape(self), v |-> g, src |-> "astra"]
    /\ proj_calls' = proj_calls + algorithm["iterations"].n
    /\ pc' = "returned"
    /\ UNCHANGED <<choices, method, self, data, algorithm, regularisation, passed,
                   error, power_runs, L_const_inv, X, X_t, t, iter_no, sub_ind,
                   nsteps, step>>
    /\ UNCHANGED vars_loop
    /\ UNCHANGED vars_more
    /\ UNCHANGED <<vars_os, vars_ctor>>

(***************************************************************************)
(* methodsIR.py: prox_regul and RecToolsIR.FISTA                           *)
(***************************************************************************)
\* prox_regul, lines 80-107: the tests 'NAME' in _regularisation_['method'],
\* in the order of the code
RegulariserOrder ==
    <<S_ROF_TV, S_FGP_TV, S_PD_TV, S_SB_TV, S_LLT_ROF, S_TGV, S_NDF, S_Diff4th,
      S_NLTV, S_WAVELETS>>

\* the regularisers prox_regul invokes for a method tag, in order
ProxCallsMutant(tag) ==
    LET Invoked(name) == IsSubstring(name, tag)
    IN Reverse(SelectSeq(RegulariserOrder, Invoked))
ProxCalls(tag) ==
    LET Invoked(name) == IsSubstring(name, tag)
    IN SelectSeq(RegulariserOrder, Invoked)

\* lines 108-119: W.soft_threshold(_regularisation_['regul_param2'])
WaveletThreshold(reg, calls) ==
    IF \E i \in 1..Len(calls) : calls[i] = S_WAVELETS THEN reg["regul_param2"] ELSE << >>

\* lines 433-459: the weight the residual is multiplied with
RobustWeightMutant(d) ==
    IF ~IsNone(d["studentst_threshold"]) THEN "student"
    ELSE IF ~IsNone(d["huber_threshold"]) THEN "huber"
    ELSE "none"
RobustWeight(d) ==
    IF ~IsNone(d["huber_threshold"]) THEN "huber"
    ELSE IF ~IsNone(d["studentst_threshold"]) THEN "student"
    ELSE "none"

Abs(x) == IF x < 0 THEN -x ELSE x
Sign(x) == IF x < 0 THEN -1 ELSE IF x > 0 THEN 1 ELSE 0
Maximum(x, y) == IF x >= y THEN x ELSE y

\* lines 433-459: if huber_threshold is not None: ... elif studentst_threshold
\* is not None: ... else: ...; the weights the residual is multiplied with
WeightsAppliedMutant(d) ==
    (IF ~IsNone(d["huber_threshold"]) THEN <<"huber">> ELSE << >>)
    \o (IF ~IsNone(d["studentst_threshold"]) THEN <<"student">> ELSE << >>)
WeightsApplied(d) == IF RobustWeight(d) = "none" THEN << >> ELSE <<RobustWeight(d)>>

\* lines 435-436: multHuber = ones; multHuber[abs(res) > thr] = thr/abs(res)
HuberWeight(res, thr) ==
    IF Abs(res) > thr THEN [n |-> thr, d |-> Abs(res)] ELSE [n |-> 1, d |-> 1]

\* line 447: multStudent = 2.0/(thr**2 + res**2)
StudentWeight(res, thr) == [n |-> 2, d |-> thr * thr + res * res]

\* the factor an element res of the residual is multiplied with
Multiplier(d, res) ==
    CASE RobustWeight(d) = "huber" -> HuberWeight(res, d["huber_threshold"].n)
      [] RobustWeight(d) = "student" -> StudentWeight(res, d["studentst_threshold"].n)
      [] OTHER -> << >>

\* lines 437-459: every branch back-projects once (backprojOS or backproj)
BackProjections(d) ==
    CASE RobustWeight(d) = "huber" -> 1
      [] RobustWeight(d) = "student" -> 1
      [] OTHER -> 1

\* lines 357-471: the operations of a subset step in the order of the code;
\* the clamp, the mask and the proximal call are conditional
FISTAStepOrderMutant ==
    <<"residual", "back-projection", "descent", "prox", "clamp", "mask", "momentum",
      "extrapolation">>
FISTAStepOrder ==
    <<"residual", "back-projection", "descent", "clamp", "mask", "prox", "momentum",
      "extrapolation">>

Position(seq, x) == CHOOSE i \in 1..Len(seq) : seq[i] = x

\* the operations a step performs; upto names the operation that raises, or
\* "end" when none does
StepOps(alg, reg, upto) ==
    LET Performed(op) ==
            /\ (op = "clamp" => EqualsStr(alg["nonnegativity"], S_ENABLE))
            /\ (op = "mask" => ~IsNone(Get(alg, "mask_diameter")))
            /\ (op = "prox" => ~IsNone(Get(reg, "method")))
            /\ (upto # "end" =>
                    Position(FISTAStepOrder, op) < Position(FISTAStepOrder, upto))
    IN SelectSeq(FISTAStepOrder, Performed)

\* lines 462 and 542: if (_algorithm_['nonnegativity'] == 'ENABLE'): X[X < 0.0] = 0.0
Clamp(alg, x) ==
    IF EqualsStr(alg["nonnegativity"], S_ENABLE) /\ x.v < 0 THEN [x EXCEPT !.v = 0] ELSE x

\* lines 301 and 522: X = _algorithm_['initialise'] and its ravel() are the
\* caller's array, not a copy of it; the caller's arrays an array shares its
\* elements with
Aliases(x) == IF x.src = "initialise" THEN {"initialise"} ELSE {}

\* lines 461 and 541: X = X_t - ... and X = np.float32(outputSolver[0]) bind X
\* to a new array
ResultArrayMutant(old, shape, g) == [shape |-> shape, v |-> g, src |-> old.src]
ResultArray(old, shape, g) == [shape |-> shape, v |-> g, src |-> "step"]

\* lines 463, 543 and 120: X[X < 0.0] = 0.0 and, in 3D, X[i,:,:] = W.image
\* write into the array x; the caller's arrays that are written into
InPlaceWrites(obj, alg, x, calls) ==
    (IF EqualsStr(alg["nonnegativity"], S_ENABLE) THEN Aliases(x) ELSE {})
    \cup (IF obj.geom = "3D" /\ (\E i \in 1..Len(calls) : calls[i] = S_WAVELETS)
          THEN Aliases(x) ELSE {})

\* lines 296-312: the initial estimate
InitialEstimate(obj, alg) ==
    LET wanted == IF obj.geom = "2D"
                  THEN obj.ObjSize * obj.ObjSize
                  ELSE obj.ObjSize * obj.ObjSize * obj.ObjSize
    IN IF NpSize(alg["initialise"]) = wanted
       THEN [shape |-> alg["initialise"].a, src |-> "initialise"]
       ELSE [shape |-> GeomShape(obj), src |-> "zeros"]

\* lines 324, 377, 398, 412, 472: the ring model takes part in an iteration
RingActiveMutant(d, it) == it > 0
RingActive(d, it) == ~IsNone(d["ringGH_lambda"]) /\ it > 0

\* line 473: np.maximum((np.abs(r) - ringGH_lambda), 0.0)*np.sign(r)
SoftThresholdMutant(x, lam) == Maximum(x - lam, 0)
SoftThreshold(x, lam) == Maximum(Abs(x) - lam, 0) * Sign(x)

\* line 474: r_x = r + ((t_old - 1.0)/t)*(r - r_old); the factor is a real
\* number, so r_x is r when r = r_old and any value otherwise
Extrapolated(rnew, rold) == IF rnew = rold THEN {rnew} ELSE RingValues

\* lines 330-342, the residuals summed into vec by the pre-calculation over
\* the subsets: 2D accumulates (vec = vec + ...), 3D assigns (vec = ...)
PrecalcSubsets(obj, os) == IF obj.geom = "2D" THEN 0..(os - 1) ELSE {os - 1}

\* lines 343-346 and 416, 421: r[:,0] = ... writes into the array r_old names
\* as well (2D); r = ... binds r to a new array (3D)
OldAfterWrite(obj, rnew, rold) == IF obj.geom = "2D" THEN rnew ELSE rold

\* lines 357-432: the residual that is back-projected holds the ring term.
\* With ordered subsets the term is added last for every fidelity; in the
\* classical branch it is added at lines 412-421, and the SWLS branch
\* (lines 422-432) computes res anew after that.
ResidualHasRingTerm(obj, d, it) ==
    /\ RingActive(d, it)
    /\ (GreaterThan(d["OS_number"], 1) \/ obj.datafidelity # "SWLS")

\* i < v for an integer i and a number v
LessThan(i, v) == i * v.d < v.n

\* lines 481 and 565: the stopping test is made at this iteration
StopTestedFISTAMutant(d, it) == it > 10
StopTestedFISTA(d, it) ==
    \/ it > 10 /\ GreaterThan(d["OS_number"], 1)
    \/ it > 150 /\ EqualsInt(d["OS_number"], 1)
StopTestedADMM(it) == it > 5

\* (round)(iterations/5): n/5 is never half-way between two integers
RoundFifth(n) == IF n % 5 >= 3 THEN (n \div 5) + 1 ELSE n \div 5

\* lines 475-479 and 558-562: the messages of an iteration
\* (_algorithm_['verbose'] == 'on')
IterationMessages(alg, it, name) ==
    LET n == alg["iterations"].n
        on == EqualsStr(alg["verbose"], S_on)
        every == IF on /\ it % (RoundFifth(n) + 1) = 0 THEN {name \o " iteration"} ELSE {}
        last == IF (on \/ name = "ADMM") /\ it = n - 1 THEN {name \o " stopped"} ELSE {}
    IN every \cup last

\* line 484-485 and 568: the message of an early stop
StopMessages(alg, name) ==
    IF EqualsStr(alg["verbose"], S_on) \/ name = "ADMM" THEN {name \o " stopped"} ELSE {}

\* what an external call may do besides returning an array: raise, or (gmres)
\* stop at maxiter without having converged
Misbehaviours == {"projector raises", "regulariser raises", "gmres stalls"}

Outcomes(ext) == {"ok"} \cup (ext \cap {"projector raises", "regulariser raises"})

\* FISTA and ADMM have no handler around the calls of the projector, of gmres
\* and of the regulariser (lines 321-486, 535-569): an exception of theirs
\* leaves the method
PropagateMutant(here) == here
Propagate(here) == "raised"

\* lines 295-319
FISTAInit ==
    /\ pc = "fista_init"
    /\ IF algorithm["lipschitz_const"].n = 0
       THEN /\ error' = "ZeroDivisionError"
            /\ pc' = "raised"
            /\ UNCHANGED <<L_const_inv, X, X_t, t, iter_no, r, r_x, r_old>>
       ELSE /\ L_const_inv' = Reciprocal(algorithm["lipschitz_const"])
            /\ LET x0 == InitialEstimate(self, algorithm)
               IN /\ \E g \in ElemValues :
                        X' = [shape |-> x0.shape, src |-> x0.src,
                              v |-> IF x0.src = "zeros" THEN 0 ELSE g]
                  /\ X_t' = [shape |-> x0.shape, wrote |-> 0]
            /\ r' = 0
            /\ r_x' = 0
            /\ r_old' = 0
            /\ t' = 0
            /\ iter_no' = 0
            /\ pc' = "fista_outer"
            /\ UNCHANGED error
    /\ UNCHANGED <<choices, method, self, data, algorithm, regularisation, passed,
                   ret, power_runs, proj_calls, sub_ind, nsteps, step>>
    /\ UNCHANGED <<vec, horizon, externals, iter_end, printed>>
    /\ UNCHANGED vars_more
    /\ UNCHANGED <<vars_os, vars_ctor>>

\* lines 321-324, the head of the outer loop, and line 487
FISTAOuter ==
    /\ pc = "fista_outer"
    /\ IF iter_no < algorithm["iterations"].n
       THEN /\ iter_no < horizon
            /\ r_old' = r
            /\ sub_ind' = 0
            /\ pc' = IF ~EqualsInt(data["OS_number"], 1) /\ RingActive(data, iter_no)
                     THEN "fista_ring"
                     ELSE "fista_subset"
            /\ UNCHANGED ret
       ELSE /\ ret' = X
            /\ pc' = "returned"
            /\ UNCHANGED <<sub_ind, r_old>>
    /\ UNCHANGED <<choices, method, self, data, algorithm, regularisation, passed,
                   error, power_runs, proj_calls, L_const_inv, X, X_t, t, iter_no,
                   nsteps, step>>
    /\ UNCHANGED <<r, r_x, vec, horizon, externals, iter_end, printed>>
    /\ UNCHANGED vars_more
    /\ UNCHANGED <<vars_os, vars_ctor>>

\* lines 325-346: the pre-calculation of the ring vector with ordered subsets,
\* one forward projection of X_t per subset
FISTARingPrecalc ==
    /\ pc = "fista_ring"
    /\ \E fails \in {"projector raises" \in externals, FALSE}, raw \in RingValues :
          IF fails \/ X_t.shape # GeomShape(self)
          THEN /\ error' = "ProjectorError"
               /\ pc' = Propagate(pc)
               /\ proj_calls' = proj_calls + 1
               /\ UNCHANGED <<r, r_old, vec>>
          ELSE /\ r' = raw
               /\ r_old' = OldAfterWrite(self, raw, r_old)
               /\ vec' = [subsets |-> PrecalcSubsets(self, data["OS_number"].n),
                          at |-> t]
               /\ proj_calls' = proj_calls + data["OS_number"].n
               /\ pc' = "fista_subset"
               /\ UNCHANGED error
    /\ UNCHANGED <<choices, method, self, data, algorithm, regularisation, passed,
                   ret, power_runs, L_const_inv, X, X_t, t, iter_no, sub_ind,
                   nsteps, step>>
    /\ UNCHANGED <<r_x, horizon, externals, iter_end, printed>>
    /\ UNCHANGED vars_more
    /\ UNCHANGED <<vars_os, vars_ctor>>

\* lines 349-471: one pass of the loop over the subsets.  The projector is
\* external: it refuses an image that is not of the geometry's shape, it may
\* raise, and the gradient it returns is any array of the geometry's shape.
\* The regulariser is external as well.
FISTASubsetStep ==
    /\ pc = "fista_subset"
    /\ \E g \in ElemValues, p \in ElemValues,
          raw \in (IF ~GreaterThan(data["OS_number"], 1) /\ RingActive(data, iter_no)
                   THEN RingValues ELSE {r}),
          res \in (IF RobustWeight(data) = "none" THEN {0} ELSE ResValues),
          outcome \in Outcomes(externals) :
          LET w == RobustWeight(data)
              x1 == ResultArray(X, GeomShape(self), g)
              x2 == Clamp(algorithm, x1)
              hasMask == Has(algorithm, "mask_diameter")
              hasMethod == Has(regularisation, "method")
              proxRuns == hasMethod /\ ~IsNone(regularisation["method"])
              calls == IF proxRuns THEN ProxCalls(regularisation["method"].s) ELSE << >>
              x3 == IF calls # << >> THEN [x2 EXCEPT !.v = p] ELSE x2
              lastSubset == (sub_ind + 1 = data["OS_number"].n)
              classical == ~GreaterThan(data["OS_number"], 1)
              ringWrite == classical /\ RingActive(data, iter_no)
              stale == self.datafidelity = "SWLS"
              did == [NoStep EXCEPT
                        !.L = L_const_inv, !.weight = w,
                        !.ring_term = ResidualHasRingTerm(self, data, iter_no),
                        !.res_at = t, !.sub = sub_ind,
                        !.seen = IF sub_ind = 0 THEN <<0>> ELSE Append(step.seen, sub_ind),
                        !.read = X_t.wrote, !.t_old = t,
                        !.weights = WeightsApplied(data), !.res = res,
                        !.mult = Multiplier(data, res),
                        !.backprojs = BackProjections(data)]
          IN /\ (outcome = "regulariser raises" => calls # << >>)
             /\ IF outcome = "projector raises" \/ X_t.shape # GeomShape(self)
                THEN /\ error' = "ProjectorError"
                     /\ pc' = Propagate(pc)
                     /\ proj_calls' = proj_calls + 1
                     /\ UNCHANGED <<X, X_t, t, sub_ind, nsteps, step, r, r_old, vec,
                                    written>>
                ELSE /\ proj_calls' = proj_calls + 2
                     /\ written' = written \cup
                            InPlaceWrites(self, algorithm, x1,
                                          IF hasMask /\ outcome = "ok" THEN calls
                                          ELSE << >>)
                     /\ IF ringWrite
                        THEN /\ r' = raw
                             /\ r_old' = OldAfterWrite(self, raw, r_old)
                             /\ vec' = [subsets |-> {0},
                                        at |-> IF stale THEN t - 1 ELSE t]
                        ELSE UNCHANGED <<r, r_old, vec>>
                     /\ IF ~hasMask \/ ~hasMethod
                        THEN /\ error' = "KeyError"
                             /\ pc' = "raised"
                             /\ X' = x2
                             /\ step' = [did EXCEPT
                                           !.ops = StepOps(algorithm, regularisation,
                                                           IF hasMask THEN "prox"
                                                           ELSE "mask")]
                             /\ UNCHANGED <<X_t, t, sub_ind, nsteps>>
                        ELSE IF outcome = "regulariser raises"
                        THEN /\ error' = "RegulariserError"
                             /\ pc' = Propagate(pc)
                             /\ X' = x2
                             /\ step' = [did EXCEPT
                                           !.ops = StepOps(algorithm, regularisation,
                                                           "prox")]
                             /\ UNCHANGED <<X_t, t, sub_ind, nsteps>>
                        ELSE /\ X' = x3
                             /\ X_t' = [shape |-> x3.shape, wrote |-> nsteps + 1]
                             /\ t' = t + 1
                             /\ step' = [did EXCEPT
                                           !.prox_ran = proxRuns, !.prox = calls,
                                           !.wavelet_par =
                                               WaveletThreshold(regularisation, calls),
                                           !.ops = StepOps(algorithm, regularisation,
                                                           "end")]
                             /\ nsteps' = nsteps + 1
                             /\ sub_ind' = sub_ind + 1
                             /\ pc' = IF lastSubset THEN "fista_iter_end"
                                      ELSE "fista_subset"
                             /\ UNCHANGED error
    /\ UNCHANGED <<choices, method, self, data, algorithm, regularisation, passed,
                   ret, power_runs, L_const_inv, iter_no>>
    /\ UNCHANGED <<r_x, horizon, externals, iter_end, printed>>
    /\ UNCHANGED <<z, u, calls_left, history>>
    /\ UNCHANGED <<vars_os, vars_ctor>>

\* lines 472-486: the end of an outer iteration: the soft threshold of the
\* ring vector, the messages, and the stopping test on the norm of the change
\* of the last step
FISTAIterEnd ==
    /\ pc = "fista_iter_end"
    /\ \E nrm \in NormValues :
          LET ring == RingActive(data, iter_no)
              thr == IF ring THEN SoftThreshold(r, data["ringGH_lambda"].n) ELSE r
              tested == StopTestedFISTA(data, iter_no)
              stops == tested /\ LessThan(nrm, algorithm["tolerance"])
          IN /\ r' = thr
             /\ r_x' \in (IF ring THEN Extrapolated(thr, r_old) ELSE {r_x})
             /\ iter_end' = [tested |-> tested, nrm |-> IF tested THEN nrm ELSE 0,
                             stopped |-> stops, ring_ran |-> ring,
                             r_raw |-> IF ring THEN r ELSE 0,
                             r_new |-> IF ring THEN thr ELSE 0,
                             r_old |-> IF ring THEN r_old ELSE 0,
                             r_prev |-> IF ring THEN iter_end.r_end ELSE 0,
                             r_end |-> thr,
                             t_old |-> step.t_old, t |-> t]
             /\ (~tested => nrm = 0)
             /\ printed' = printed \cup IterationMessages(algorithm, iter_no, "FISTA")
                             \cup (IF stops THEN StopMessages(algorithm, "FISTA") ELSE {})
             /\ IF stops
                THEN /\ ret' = X
                     /\ pc' = "returned"
                     /\ UNCHANGED iter_no
                ELSE /\ iter_no' = iter_no + 1
                     /\ pc' = "fista_outer"
                     /\ UNCHANGED ret
    /\ UNCHANGED <<choices, method, self, data, algorithm, regularisation, passed,
                   error, power_runs, proj_calls, L_const_inv, X, X_t, t, sub_ind,
                   nsteps, step>>
    /\ UNCHANGED <<r_old, vec, horizon, externals>>
    /\ UNCHANGED vars_more
    /\ UNCHANGED <<vars_os, vars_ctor>>

(***************************************************************************)
(* methodsIR.py: RecToolsIR.ADMM                                           *)
(***************************************************************************)
\* line 540: gmres(..., maxiter = 15) returns info = 0 when it has converged
\* and the number of its iterations when it has not
GmresMaxIter == 15
GmresInfo(ext) == IF "gmres stalls" \in ext THEN {0, GmresMaxIter} ELSE {0}

\* lines 535-557: the operations of an iteration in the order of the code;
\* the clamp and the proximal call are conditional
ADMMStepOrderMutant == <<"solve", "clamp", "prox", "relax", "dual">>
ADMMStepOrder == <<"solve", "clamp", "relax", "prox", "dual">>

ADMMOps(alg, reg) ==
    LET Performed(op) ==
            /\ (op = "clamp" => EqualsStr(alg["nonnegativity"], S_ENABLE))
            /\ (op = "prox" => ~IsNone(reg["method"]))
    IN SelectSeq(ADMMStepOrder, Performed)

\* line 538: b_to_solver = b_to_solver_const + rho*(z - u), of the z and u
\* that are current at the head of the iteration
ADMMRhs(alg, zv, uv) == [rho |-> alg["ADMM_rho_const"].n, plus |-> zv, minus |-> uv]

\* lines 544-545: zold = z.copy(); x_hat = relax*X + (1.0 - relax)*zold, X of
\* this iteration
ADMMRelax(alg, it, zv) ==
    [x |-> it, x_coef |-> alg["ADMM_relax_par"].n,
     z |-> zv, z_coef |-> 1 - alg["ADMM_relax_par"].n]

\* lines 546-549: x_prox_reg = (x_hat + u).reshape(...)
ADMMProxInput(it, uv) == [x_hat |-> it, u |-> uv]

\* lines 551-554: z is assigned the result of prox_regul when a method is
\* configured; z = z.ravel() leaves its elements as they are
ADMMzMutant(reg, it, zv) == it
ADMMz(reg, it, zv) == IF ~IsNone(reg["method"]) THEN it ELSE zv

\* line 556: u = u + (x_hat - z), z the one just assigned
ADMMDual(uv, it, znew) == [u |-> uv, plus |-> it, minus |-> znew]

\* lines 519-532
ADMMInit ==
    /\ pc = "admm_init"
    /\ LET rec_dim == Product(GeomShape(self))
       IN \E g \in ElemValues :
             X' = IF NpSize(algorithm["initialise"]) = rec_dim
                  THEN [shape |-> <<rec_dim>>, v |-> g, src |-> "initialise"]
                  ELSE [shape |-> <<rec_dim>>, v |-> 0, src |-> "zeros"]
    /\ proj_calls' = proj_calls + 1
    /\ iter_no' = 0
    /\ z' = 0
    /\ u' = 0
    /\ pc' = "admm_iter"
    /\ UNCHANGED <<choices, method, self, data, algorithm, regularisation, passed,
                   error, ret, power_runs, L_const_inv, X_t, t, sub_ind, nsteps, step>>
    /\ UNCHANGED <<r, r_x, r_old, vec, horizon, externals, iter_end, printed>>
    /\ UNCHANGED <<written, calls_left, history>>
    /\ UNCHANGED <<vars_os, vars_ctor>>

\* lines 535-573: one outer iteration, or the return when the loop is over.
\* The linear solve (gmres on the external operator) yields any array, having
\* converged or not; gmres and the regulariser may raise.
ADMMIter ==
    /\ pc = "admm_iter"
    /\ IF iter_no < algorithm["iterations"].n
       THEN /\ iter_no < horizon
            /\ \E g \in ElemValues, nrm \in NormValues,
                  info \in GmresInfo(externals), outcome \in Outcomes(externals) :
                  LET x1 == ResultArray(X, X.shape, g)
                      x2 == Clamp(algorithm, x1)
                      hasMethod == Has(regularisation, "method")
                      proxRuns == hasMethod /\ ~IsNone(regularisation["method"])
                      calls == IF proxRuns THEN ProxCalls(regularisation["method"].s)
                               ELSE << >>
                      tested == StopTestedADMM(iter_no)
                      stops == tested /\ LessThan(nrm, algorithm["tolerance"])
                      it == iter_no + 1
                      znew == ADMMz(regularisation, it, z)
                      did == [NoStep EXCEPT
                                !.prox_ran = proxRuns, !.prox = calls, !.info = info,
                                !.wavelet_par = WaveletThreshold(regularisation, calls),
                                !.ops = ADMMOps(algorithm, regularisation),
                                !.rhs = ADMMRhs(algorithm, z, u),
                                !.x_hat = ADMMRelax(algorithm, it, z),
                                !.prox_in = ADMMProxInput(it, u),
                                !.dual = ADMMDual(u, it, znew)]
                  IN /\ (~tested => nrm = 0)
                     /\ (outcome = "regulariser raises" => calls # << >>)
                     /\ (outcome = "projector raises" => info = 0)
                     /\ IF outcome = "projector raises"
                        THEN /\ error' = "ProjectorError"
                             /\ pc' = Propagate(pc)
                             /\ proj_calls' = proj_calls + 1
                             /\ UNCHANGED <<X, ret, iter_no, nsteps, step, iter_end,
                                            printed, z, u, written>>
                        ELSE /\ X' = x2
                             /\ proj_calls' = proj_calls + 2
                             /\ written' = written \cup
                                    InPlaceWrites(self, algorithm, x1,
                                                  IF outcome = "ok" THEN calls
                                                  ELSE << >>)
                             /\ IF ~hasMethod
                                THEN /\ error' = "KeyError"
                                     /\ pc' = "raised"
                                     /\ UNCHANGED <<ret, iter_no, nsteps, step, iter_end,
                                                    printed, z, u>>
                                ELSE IF outcome = "regulariser raises"
                                THEN /\ error' = "RegulariserError"
                                     /\ pc' = Propagate(pc)
                                     /\ UNCHANGED <<ret, iter_no, nsteps, step, iter_end,
                                                    printed, z, u>>
                                ELSE /\ step' = did
                                     /\ z' = znew
                                     /\ u' = it
                                     /\ nsteps' = nsteps + 1
                                     /\ iter_end' = [NoIterEnd EXCEPT
                                                       !.tested = tested, !.nrm = nrm,
                                                       !.stopped = stops]
                                     /\ printed' =
                                            printed
                                            \cup IterationMessages(algorithm, iter_no, "ADMM")
                                            \cup (IF stops
                                                  THEN StopMessages(algorithm, "ADMM")
                                                  ELSE {})
                                     /\ UNCHANGED error
                                     /\ IF stops
                                        THEN /\ ret' = [shape |-> GeomShape(self),
                                                        v |-> x2.v, src |-> "step"]
                                             /\ pc' = "returned"
                                             /\ UNCHANGED iter_no
                                        ELSE /\ iter_no' = iter_no + 1
                                             /\ UNCHANGED <<ret, pc>>
       ELSE /\ ret' = [shape |-> GeomShape(self), v |-> X.v, src |-> X.src]
            /\ pc' = "returned"
            /\ UNCHANGED <<X, proj_calls, error, iter_no, nsteps, step, iter_end,
                           printed, z, u, written>>
    /\ UNCHANGED <<choices, method, self, data, algorithm, regularisation, passed,
                   power_runs, L_const_inv, X_t, t, sub_ind>>
    /\ UNCHANGED <<r, r_x, r_old, vec, horizon, externals>>
    /\ UNCHANGED <<calls_left, history>>
    /\ UNCHANGED <<vars_os, vars_ctor>>

(***************************************************************************)
(* astra_wrappers.py: AstraBase.__init__ and the property setters it runs, *)
(* lines 46-172.  AstraTools2D and AstraTools3D call it first (lines 619,  *)
(* 719), the 2D class with detectors_y = None.  A setter yields the value  *)
(* it stores, or raises.                                                   *)
(***************************************************************************)
Stored(v) == [ok |-> TRUE, val |-> v]
Refused == [ok |-> FALSE, val |-> NoneV]

\* lines 69-75
Set_detectors_xMutant(v) == IF v.n < 0 THEN Refused ELSE Stored(v)
Set_detectors_x(v) == IF v.n <= 0 THEN Refused ELSE Stored(v)

\* lines 81-87: len(angles_vec_val) == 0, np.ndim(angles_vec_val) >= 2
Set_angles_vec(v) ==
    IF v.a[1] = 0 THEN Refused
    ELSE IF Len(v.a) >= 2 THEN Refused
    ELSE Stored(v)

\* lines 93-102: np.ndim of None and of a scalar is 0
Set_centre_of_rotation(v, angles) ==
    IF v.k = "array" /\ Len(v.a) = 1 /\ v.a[1] # angles.a[1] THEN Refused
    ELSE IF IsNone(v) THEN Stored(Whole(0))
    ELSE Stored(v)

\* lines 108-116
Set_recon_size(v) ==
    IF v.k = "tuple" THEN Refused
    ELSE IF v.n <= 0 THEN Refused
    ELSE Stored(v)

\* lines 122-132: self.centre_of_rotation != 0 has no truth value for a vector
\* of more than one element, which is an exception as well
Set_processing_arch(v, cor) ==
    IF v # "cpu" /\ v # "gpu" THEN Refused
    ELSE IF v = "cpu" /\ (cor.k = "array" \/ cor.n # 0) THEN Refused
    ELSE Stored(v)

\* lines 138-145
Set_device_index(v, arch) ==
    IF v.n <= -2 THEN Refused
    ELSE IF arch = "cpu" THEN Stored(Whole(-1))
    ELSE Stored(v)

\* lines 151-157
Set_ordsub_number(v) ==
    LET val == IF IsNone(v) THEN Whole(1) ELSE v
    IN IF val.n <= 0 THEN Refused ELSE Stored(val)

\* lines 163-171
Set_detectors_y(v) ==
    IF ~IsNone(v) /\ v.n <= 0 THEN Refused ELSE Stored(v)

\* no object: the constructor has not run (e = "none") or has raised e
NoAstra(e) ==
    [built |-> FALSE, error |-> e,
     detectors_x |-> NoneV, angles_vec |-> NoneV, centre_of_rotation |-> NoneV,
     recon_size |-> NoneV, processing_arch |-> "none", device_index |-> NoneV,
     ordsub_number |-> NoneV, detectors_y |-> NoneV]

\* lines 57-64: the assignments of __init__, in order; the first setter that
\* raises ends the construction
AstraBaseNew(a) ==
    LET dx == Set_detectors_x(a.detectors_x)
        av == Set_angles_vec(a.angles_vec)
        cor == Set_centre_of_rotation(a.centre_of_rotation, a.angles_vec)
        rs == Set_recon_size(a.recon_size)
        pa == Set_processing_arch(a.processing_arch, cor.val)
        di == Set_device_index(a.device_index, a.processing_arch)
        os == Set_ordsub_number(a.ordsub_number)
        dy == Set_detectors_y(a.detectors_y)
    IN IF dx.ok /\ av.ok /\ cor.ok /\ rs.ok /\ pa.ok /\ di.ok /\ os.ok /\ dy.ok
       THEN [built |-> TRUE, error |-> "none",
             detectors_x |-> dx.val, angles_vec |-> av.val,
             centre_of_rotation |-> cor.val, recon_size |-> rs.val,
             processing_arch |-> pa.val, device_index |-> di.val,
             ordsub_number |-> os.val, detectors_y |-> dy.val]
       ELSE NoAstra("ValueError")

\* the arguments a caller may pass
DetectorsXArgs == {Whole(-1), Whole(0), Whole(DimDetH)}
AnglesArgs == {Arr(<<0>>), Arr(<<DimAngles>>), Arr(<<2, DimAngles>>)}
CentreArgs == {NoneV, Whole(0), Whole(2), Arr(<<DimAngles>>), Arr(<<DimAngles + 1>>)}
ReconSizeArgs == {TupleV(<<2, 3>>), Whole(-1), Whole(0), Whole(2)}
ArchArgs == {"cpu", "gpu", "tpu"}
DeviceArgs == {Whole(-2), Whole(0)}
OrdsubArgs == {NoneV, Whole(-1), Whole(0), Whole(1), Whole(2)}
DetectorsYArgs == {NoneV, Whole(0), Whole(DimDetV)}

PlainArgs ==
    [detectors_x |-> Whole(DimDetH), angles_vec |-> Arr(<<DimAngles>>),
     centre_of_rotation |-> NoneV, recon_size |-> Whole(2), processing_arch |-> "gpu",
     device_index |-> Whole(0), ordsub_number |-> Whole(1), detectors_y |-> NoneV]

(***************************************************************************)
(* The specifications.                                                     *)
(***************************************************************************)
\* the solver part before any call; the plain object is 2D, LS, no axis swap
SolverStartCalls(obj, d, alg, reg, n, h, ext, calls) ==
    /\ pc = "caller"
    /\ choices = n
    /\ method = "none"
    /\ self = obj
    /\ data = d
    /\ algorithm = alg
    /\ regularisation = reg
    /\ passed = [self |-> obj, data |-> d, alg |-> alg, reg |-> reg]
    /\ error = "none"
    /\ ret = UnsetArray
    /\ power_runs = << >>
    /\ proj_calls = 0
    /\ L_const_inv = NoneV
    /\ X = UnsetArray
    /\ X_t = [shape |-> << >>, wrote |-> 0]
    /\ t = 0
    /\ iter_no = 0
    /\ sub_ind = 0
    /\ nsteps = 0
    /\ step = NoStep
    /\ r = 0
    /\ r_x = 0
    /\ r_old = 0
    /\ vec = NoVec
    /\ horizon = h
    /\ externals = ext
    /\ iter_end = NoIterEnd
    /\ printed = {}
    /\ z = 0
    /\ u = 0
    /\ written = {}
    /\ calls_left = calls
    /\ history = << >>

SolverStartWith(obj, d, alg, reg, n, h, ext) ==
    SolverStartCalls(obj, d, alg, reg, n, h, ext, 0)

SolverStart(obj, d, n) == SolverStartWith(obj, d, EmptyDict, EmptyDict, n, MaxIter, {})

NoSwap == << << >>, << >> >>

PlainObject == Construct(DimDetH, NoneV, DimAngles, 2, "LS", NoSwap)

SolverIdle == SolverStart(PlainObject, EmptyDict, 0)

\* powermethod has not run
NoPower == [operator |-> "none", sub |-> 0, angles |-> << >>, weights |-> << >>]

\* the indices of all the angles, 0..n-1
AllAngles(n) == [i \in 1..n |-> i - 1]

\* methodsIR.py line 243: if (self.OS_number == 1) the full-data operator
\* self.Atools, else subset 0 of self.AtoolsOS
PowerOperator(os) == IF os = 1 THEN "full" ELSE "subset"

\* lines 246-247 and 259-262: np.multiply(sqweight, y) and
\* np.multiply(sqweight[self.AtoolsOS.newInd_Vec[0,:],:], y)
PowerWeightRows(table, os, n) == IF os = 1 THEN AllAngles(n) ELSE table[0]

OSIdle ==
    /\ os_pc = "idle"
    /\ angles_tot = 1
    /\ ordsub_number = 1
    /\ NumbProjBins = 0
    /\ newInd_Vec = << >>
    /\ os_sub_ind = 0
    /\ proj_ind = 0
    /\ ind_sel = 0
    /\ proj_indVec = << >>
    /\ indVec = << >>
    /\ power = NoPower

CtorIdle ==
    /\ ctor_pc = "idle"
    /\ ctor_args = PlainArgs
    /\ astra = NoAstra("none")

\* a run the caller has prepared for the ring model: both projection arrays,
\* the number of subsets, ringGH_lambda, and a mask diameter
RingData(obj, os, lam) ==
    [x \in {"projection_norm_data", "projection_raw_data", "OS_number", "ringGH_lambda"} |->
        CASE x = "OS_number" -> Whole(os)
          [] x = "ringGH_lambda" -> lam
          [] OTHER -> SuppliedData(obj)]

MaskOnly == [x \in {"mask_diameter"} |-> NoneV]

OneMethod == [x \in {"method"} |-> Str(S_FGP_TV)]

\* a long run the caller has prepared: the number of subsets, a mask diameter,
\* a tolerance or none, a number of iterations or none
LongData(obj, os) ==
    [x \in {"projection_norm_data", "OS_number"} |->
        IF x = "OS_number" THEN Whole(os) ELSE SuppliedData(obj)]

LongAlgorithm(tol, its) ==
    LET a1 == IF IsNone(tol) THEN MaskOnly ELSE Put(MaskOnly, "tolerance", tol)
    IN IF IsNone(its) THEN a1 ELSE Put(a1, "iterations", its)

\* the iteration budgets of the long runs: one test (ADMM, FISTA with subsets,
\* classical FISTA), or the default
LongBudgets == {NoneV, Whole(7), Whole(12), Whole(LongRun - 1)}

\* the object is constructed with any geometry, fidelity and axis order; the
\* caller has the normalised projection data or not
PlainStarts ==
    \E size \in 2..MaxObjSize,
       dimV \in {NoneV, Whole(DimDetV)},
       fidelity \in {"LS", "PWLS", "SWLS", "KL"},
       swaps \in {NoSwap, << <<0, 1>>, << >> >>},
       hasData \in BOOLEAN :
       LET obj == Construct(DimDetH, dimV, DimAngles, size, fidelity, swaps)
           cost == (IF size # 2 THEN 1 ELSE 0) + (IF IsNone(dimV) THEN 0 ELSE 1)
                   + (IF fidelity # "LS" THEN 1 ELSE 0)
                   + (IF swaps # NoSwap THEN 1 ELSE 0)
           d == IF hasData
                THEN [x \in {"projection_norm_data"} |-> SuppliedData(obj)]
                ELSE EmptyDict
       IN /\ cost <= MaxChoices
          /\ SolverStart(obj, d, cost)

RingStarts ==
    \E dimV \in {NoneV, Whole(DimDetV)},
       fidelity \in {"LS", "PWLS", "SWLS", "KL"},
       os \in {1, 2},
       lam \in {Whole(1), Whole(2)} :
       LET obj == Construct(DimDetH, dimV, DimAngles, 2, fidelity, NoSwap)
       IN SolverStartWith(obj, RingData(obj, os, lam), MaskOnly, EmptyDict, MaxChoices,
                          MaxIter, {})

LongStarts ==
    \E os \in {1, 2}, tol \in {NoneV, Whole(1)}, its \in LongBudgets :
       SolverStartWith(PlainObject, LongData(PlainObject, os), LongAlgorithm(tol, its),
                       EmptyDict, MaxChoices, LongRun, {})

\* a run the caller has prepared, with a projector, a linear solver and
\* regularisers that may fail
FaultStarts ==
    \E dimV \in {NoneV, Whole(DimDetV)}, os \in {1, 2}, lam \in {NoneV, Whole(1)},
       reg \in {EmptyDict, OneMethod} :
       LET obj == Construct(DimDetH, dimV, DimAngles, 2, "LS", NoSwap)
           d == IF IsNone(lam) THEN LongData(obj, os) ELSE RingData(obj, os, lam)
       IN SolverStartWith(obj, d, MaskOnly, reg, MaxChoices, MaxIter, Misbehaviours)

\* a run the caller has prepared with the clamp, a circular mask and a
\* regulariser
FullAlgorithm ==
    [x \in {"mask_diameter", "nonnegativity"} |->
        IF x = "mask_diameter" THEN Num(9, 10) ELSE Str(S_ENABLE)]

FullStarts ==
    \E dimV \in {NoneV, Whole(DimDetV)}, os \in {1, 2} :
       LET obj == Construct(DimDetH, dimV, DimAngles, 2, "LS", NoSwap)
       IN SolverStartWith(obj, LongData(obj, os), FullAlgorithm, OneMethod, MaxChoices,
                          MaxIter, {})

\* the method tags dicts_check documents (dicts.py lines 57-61): a
\* regulariser, or a regulariser with the suffix _WAVELETS
SupportedRegularisers ==
    {S_ROF_TV, S_FGP_TV, S_PD_TV, S_SB_TV, S_LLT_ROF, S_TGV, S_NDF, S_Diff4th, S_NLTV}
WithWavelets(name) == name \o <<"_">> \o S_WAVELETS
SupportedTags == SupportedRegularisers \cup {WithWavelets(n) : n \in SupportedRegularisers}

\* a run the caller has prepared with one of the supported method tags and a
\* threshold for the wavelets
TagStarts ==
    \E tag \in SupportedTags :
       LET reg == [x \in {"method", "regul_param2"} |->
                      IF x = "method" THEN Str(tag) ELSE Num(1, 50)]
       IN SolverStartWith(PlainObject, LongData(PlainObject, 1), MaskOnly, reg,
                          MaxChoices, MaxIter, {})

\* the caller has prepared dictionaries for a sequence of calls: the
\* normalised data, a mask diameter and one iteration per call
SharedAlgorithm == Put(MaskOnly, "iterations", Whole(1))

SharedStarts ==
    \E swaps \in {NoSwap, << <<0, 1>>, << >> >>} :
       LET obj == Construct(DimDetH, NoneV, DimAngles, 2, "LS", swaps)
       IN SolverStartCalls(obj, LongData(obj, 1), SharedAlgorithm, EmptyDict,
                           MaxChoices, MaxIter, {}, MaxCalls - 1)

\* a run the caller has prepared with a robust data fidelity: the normalised
\* data, a mask diameter, and huber_threshold, studentst_threshold or both
RobustData(obj, huber, student) ==
    LET d1 == IF IsNone(huber) THEN LongData(obj, 1)
              ELSE Put(LongData(obj, 1), "huber_threshold", huber)
    IN IF IsNone(student) THEN d1 ELSE Put(d1, "studentst_threshold", student)

RobustStarts ==
    \E huber \in {NoneV, Whole(1)}, student \in {NoneV, Whole(1)} :
       SolverStartWith(PlainObject, RobustData(PlainObject, huber, student), MaskOnly,
                       EmptyDict, MaxChoices, MaxIter, {})

\* a run the caller has prepared with an initial estimate, the clamp and a
\* circular mask
WarmStarts ==
    \E dimV \in {NoneV, Whole(DimDetV)}, flat \in BOOLEAN :
       LET obj == Construct(DimDetH, dimV, DimAngles, 2, "LS", NoSwap)
           x0 == IF flat THEN Arr(<<Product(GeomShape(obj))>>) ELSE Arr(GeomShape(obj))
       IN SolverStartWith(obj, LongData(obj, 1), Put(FullAlgorithm, "initialise", x0),
                          EmptyDict, MaxChoices, MaxIter, {})

Init ==
    /\ OSIdle
    /\ CtorIdle
    /\ (PlainStarts \/ RingStarts \/ LongStarts \/ FaultStarts \/ FullStarts
        \/ TagStarts \/ SharedStarts \/ RobustStarts \/ WarmStarts)

Next ==
    \/ CallerSetsData
    \/ CallerSetsAlgorithm
    \/ CallerSetsRegularisation
    \/ Call
    \/ CallerCallsAgain
    \/ CheckDicts
    \/ AstraRun
    \/ FISTAInit
    \/ FISTAOuter
    \/ FISTARingPrecalc
    \/ FISTASubsetStep
    \/ FISTAIterEnd
    \/ ADMMInit
    \/ ADMMIter

Spec == Init /\ [][Next]_vars

(***************************************************************************)
(* The construction of the ordered-subsets projector, on its own.          *)
(***************************************************************************)
OSInit ==
    /\ os_pc = "new"
    /\ angles_tot \in 1..MaxAngles
    /\ ordsub_number \in 1..MaxOS
    /\ NumbProjBins = 0
    /\ newInd_Vec = << >>
    /\ os_sub_ind = 0
    /\ proj_ind = 0
    /\ ind_sel = 0
    /\ proj_indVec = << >>
    /\ indVec = << >>
    /\ power = NoPower
    /\ SolverIdle
    /\ CtorIdle

\* lines 175-181: NumbProjBins and the zero-filled table
SetOSIndicesBegin ==
    /\ os_pc = "new"
    /\ NumbProjBins' = CeilDiv(angles_tot, ordsub_number)
    /\ newInd_Vec' = [s \in 0..(ordsub_number - 1) |->
                          Zeros(CeilDiv(angles_tot, ordsub_number))]
    /\ os_sub_ind' = 0
    /\ proj_ind' = 0
    /\ ind_sel' = 0
    /\ os_pc' = "fill"
    /\ UNCHANGED <<angles_tot, ordsub_number, proj_indVec, indVec, power>>
    /\ UNCHANGED <<vars_solver, vars_ctor>>

\* lines 182-188: one pass of the inner loop body
SetOSIndicesSlot ==
    /\ os_pc = "fill"
    /\ LET filled == SlotIsFilled(ind_sel, os_sub_ind, angles_tot)
           sel1 == IF filled THEN ind_sel + ordsub_number ELSE ind_sel
           lastSlot == (proj_ind + 1 = NumbProjBins)
           lastRow == (os_sub_ind + 1 = ordsub_number)
       IN /\ newInd_Vec' =
                IF filled
                THEN [newInd_Vec EXCEPT ![os_sub_ind][proj_ind + 1] = ind_sel + os_sub_ind]
                ELSE newInd_Vec
          /\ proj_ind' = IF lastSlot THEN 0 ELSE proj_ind + 1
          /\ ind_sel' = IF lastSlot THEN 0 ELSE sel1
          /\ os_sub_ind' = IF lastSlot /\ ~lastRow THEN os_sub_ind + 1 ELSE os_sub_ind
          /\ os_pc' = IF lastSlot /\ lastRow THEN "filled" ELSE "fill"
    /\ UNCHANGED <<angles_tot, ordsub_number, NumbProjBins, proj_indVec, indVec, power>>
    /\ UNCHANGED <<vars_solver, vars_ctor>>

\* _set_projection2d_OS_parallel_geometry / _set_projection3d_OS_parallel_geometry:
\* for every subset the angles of the geometry are angles_vec[indVec]
SetProjectionOSGeometry ==
    /\ os_pc = "filled"
    /\ proj_indVec' = [s \in 0..(ordsub_number - 1) |->
                          TrimRow(newInd_Vec[s], NumbProjBins)]
    /\ os_pc' = "geom"
    /\ UNCHANGED <<angles_tot, ordsub_number, NumbProjBins, newInd_Vec,
                   os_sub_ind, proj_ind, ind_sel, indVec, power>>
    /\ UNCHANGED <<vars_solver, vars_ctor>>

\* RecToolsIR.FISTA, the subset loop: the solver's own trimmed copy of row s
FISTASelectSubset ==
    /\ os_pc \in {"geom", "sliced"}
    /\ \E s \in 0..(ordsub_number - 1) :
          /\ os_sub_ind' = s
          /\ indVec' = SolverIndVec(newInd_Vec, s, NumbProjBins)
    /\ os_pc' = "sliced"
    /\ UNCHANGED <<angles_tot, ordsub_number, NumbProjBins, newInd_Vec,
                   proj_ind, ind_sel, proj_indVec, power>>
    /\ UNCHANGED <<vars_solver, vars_ctor>>

\* RecToolsIR.powermethod, lines 243-272: every projection of the run is made
\* with the operator chosen here; under PWLS the projections are multiplied
\* with the rows of the raw data chosen here
PowerMethodProjects ==
    /\ os_pc \in {"geom", "sliced"}
    /\ power' = [operator |-> PowerOperator(ordsub_number),
                 sub |-> 0,
                 angles |-> IF PowerOperator(ordsub_number) = "full"
                            THEN AllAngles(angles_tot)
                            ELSE proj_indVec[0],
                 weights |-> PowerWeightRows(newInd_Vec, ordsub_number, angles_tot)]
    /\ UNCHANGED <<os_pc, angles_tot, ordsub_number, NumbProjBins, newInd_Vec,
                   os_sub_ind, proj_ind, ind_sel, proj_indVec, indVec>>
    /\ UNCHANGED <<vars_solver, vars_ctor>>

OSNext ==
    \/ SetOSIndicesBegin
    \/ SetOSIndicesSlot
    \/ SetProjectionOSGeometry
    \/ FISTASelectSubset
    \/ PowerMethodProjects

SpecOS == OSInit /\ [][OSNext]_vars

(***************************************************************************)
(* The call of the projector's constructor, on its own.                    *)
(***************************************************************************)
CtorInit ==
    /\ ctor_pc = "new"
    /\ ctor_args \in [detectors_x : DetectorsXArgs, angles_vec : AnglesArgs,
                      centre_of_rotation : CentreArgs, recon_size : ReconSizeArgs,
                      processing_arch : ArchArgs, device_index : DeviceArgs,
                      ordsub_number : OrdsubArgs, detectors_y : DetectorsYArgs]
    /\ astra = NoAstra("none")
    /\ OSIdle
    /\ SolverIdle

\* AstraTools2D(...) / AstraTools3D(...): super().__init__ runs first
AstraBaseInit ==
    /\ ctor_pc = "new"
    /\ astra' = AstraBaseNew(ctor_args)
    /\ ctor_pc' = "done"
    /\ UNCHANGED ctor_args
    /\ UNCHANGED <<vars_os, vars_solver>>

CtorNext == AstraBaseInit

SpecCtor == CtorInit /\ [][CtorNext]_vars

(***************************************************************************)
(* Claims about the projector's constructor.                               *)
(***************************************************************************)
\* the arguments C18 names as refused
RefusedArgs(a) ==
    \/ a.detectors_x.n <= 0
    \/ a.angles_vec.a[1] = 0
    \/ Len(a.angles_vec.a) >= 2
    \/ /\ a.centre_of_rotation.k = "array"
       /\ Len(a.centre_of_rotation.a) = 1
       /\ a.centre_of_rotation.a[1] # a.angles_vec.a[1]
    \/ a.recon_size.k = "tuple"
    \/ a.recon_size.n <= 0
    \/ (~IsNone(a.ordsub_number) /\ a.ordsub_number.n <= 0)

\* C18: the constructor raises and yields no object whenever the detector
\* width is <= 0, the angle vector is empty or not 1-D, the centre of rotation
\* is a 1-D vector of another length than the angles, the object size is a
\* tuple or <= 0, or the subset count is <= 0; in an object it does yield, a
\* centre of rotation of None is stored as 0 and a subset count of None as 1.
C18_ConstructorRefuses ==
    ctor_pc = "done" =>
        /\ RefusedArgs(ctor_args) => (~astra.built /\ astra.error # "none")
        /\ astra.built =>
              /\ IsNone(ctor_args.centre_of_rotation) =>
                     astra.centre_of_rotation = Whole(0)
              /\ IsNone(ctor_args.ordsub_number) => astra.ordsub_number = Whole(1)

\* C18 witness: a call with a detector width of 0 has raised
C18_WitnessRefused ==
    /\ ctor_pc = "done"
    /\ ctor_args = [PlainArgs EXCEPT !.detectors_x = Whole(0)]
    /\ ~astra.built

(***************************************************************************)
(* Claims about the ordered-subsets index table.                           *)
(***************************************************************************)
\* the number of indices s, s+k, s+2k, ... below n
SubsetCount(s, k, n) == Cardinality({i \in 0..n : s + i * k < n})

\* C1: once the table is filled and every row is trimmed by the rule the
\* projector and the solver use (drop the last slot when it holds 0), the
\* trimmed rows together hold every index 0..N-1 exactly once and nothing else.
C1_TrimmedRowsCoverOnce ==
    os_pc = "geom" =>
        LET all == Concat(proj_indVec, ordsub_number)
        IN /\ Len(all) = angles_tot
           /\ \A x \in 0..(angles_tot - 1) : Occurrences(all, x) = 1

\* C2: row s of newInd_Vec lists, ascending and from slot 0, exactly the
\* indices s, s+k, s+2k, ... below N; the subsets are pairwise disjoint, their
\* sizes differ by at most one, and a row has at most one unused slot, its last.
C2_RoundRobinRows ==
    os_pc \in {"filled", "geom"} =>
        LET k == ordsub_number
            n == angles_tot
            cnt(s) == SubsetCount(s, k, n)
            used(s) == {newInd_Vec[s][j] : j \in 1..cnt(s)}
        IN /\ \A s \in 0..(k - 1) :
                /\ Len(newInd_Vec[s]) = NumbProjBins
                /\ cnt(s) <= NumbProjBins
                /\ NumbProjBins - cnt(s) <= 1
                /\ \A j \in 1..NumbProjBins :
                      newInd_Vec[s][j] = IF j <= cnt(s) THEN s + (j - 1) * k ELSE 0
                /\ \A j \in 1..cnt(s) : newInd_Vec[s][j] < n
           /\ \A s1, s2 \in 0..(k - 1) :
                /\ s1 # s2 => used(s1) \cap used(s2) = {}
                /\ cnt(s1) - cnt(s2) <= 1

\* C2 witness: a table with a padded row (5 angles in 2 subsets) has been filled
C2_Witness ==
    /\ os_pc = "filled"
    /\ angles_tot = 5
    /\ ordsub_number = 2
    /\ newInd_Vec[1] = <<1, 3, 0>>

\* C17: for more than one subset, the index vector the FISTA solver slices the
\* projection data of subset s with is the index vector the projector built
\* the geometry of subset s from: same elements, same order, same length.
C17_SolverSlicesWhatProjectorProjects ==
    (os_pc = "sliced" /\ ordsub_number > 1) =>
        /\ indVec = proj_indVec[os_sub_ind]
        /\ Len(indVec) = Len(proj_indVec[os_sub_ind])

\* C17 witness: the solver has selected the padded subset 1 of 5 angles in 2
\* subsets, whose last slot both sides drop
C17_Witness ==
    /\ os_pc = "sliced"
    /\ angles_tot = 5
    /\ ordsub_number = 2
    /\ os_sub_ind = 1
    /\ indVec = <<1, 3>>
    /\ newInd_Vec[1] = <<1, 3, 0>>

(***************************************************************************)
(* Claims about a solver call.  passed holds the object and the            *)
(* dictionaries as the caller handed them over.                            *)
(***************************************************************************)
\* the two inputs dicts_check refuses
NormDataMissing == IsNone(Get(passed.data, "projection_norm_data"))
RawDataMissing ==
    /\ IsNone(Get(passed.data, "projection_raw_data"))
    /\ passed.self.datafidelity \in {"PWLS", "SWLS"}

\* the call has been made and dicts_check is over
CheckOver == pc \notin {"caller", "dicts_check"}

\* dicts_check has returned to the method that called it
CheckReturned == CheckOver /\ ~(pc = "raised" /\ error = "NameError")

FISTALoop == {"fista_outer", "fista_ring", "fista_subset", "fista_iter_end"}
FISTABody == {"fista_init"} \cup FISTALoop
ADMMBody == {"admm_init", "admm_iter"}

\* the keys the body of FISTA reads (methodsIR.py lines 295-486) and the keys
\* the body of ADMM reads (lines 514-567), per dictionary
FISTAReads ==
    [data |-> {"projection_norm_data", "OS_number", "huber_threshold",
               "studentst_threshold", "ringGH_lambda", "ringGH_accelerate"},
     alg |-> {"lipschitz_const", "initialise", "iterations", "nonnegativity",
              "mask_diameter", "verbose", "tolerance"},
     reg |-> {"method"}]
ADMMReads ==
    [data |-> {"projection_norm_data"},
     alg |-> {"ADMM_rho_const", "initialise", "iterations", "nonnegativity",
              "ADMM_relax_par", "verbose", "tolerance"},
     reg |-> {"method"}]

KeysPresent(reads) ==
    /\ reads.data \subseteq DOMAIN data
    /\ reads.alg \subseteq DOMAIN algorithm
    /\ reads.reg \subseteq DOMAIN regularisation

\* C3: whenever dicts_check has returned normally for FISTA (ADMM), every key
\* the FISTA (ADMM) body reads from the three dictionaries is present, and no
\* run fails later on a missing key.
C3_EveryKeyReadIsPresent ==
    /\ pc \in FISTABody => KeysPresent(FISTAReads)
    /\ pc \in ADMMBody => KeysPresent(ADMMReads)
    /\ error # "KeyError"

\* C4: without projection_norm_data, and without projection_raw_data under
\* PWLS or SWLS, the call ends in the NameError of dicts_check with the
\* dictionaries and the object as they were passed, no projection made, no
\* power-method run and no step taken.
C4_RaisesBeforeAnyEffect ==
    (CheckOver /\ (NormDataMissing \/ RawDataMissing)) =>
        /\ pc = "raised"
        /\ error = "NameError"
        /\ data = passed.data
        /\ algorithm = passed.alg
        /\ regularisation = passed.reg
        /\ self = passed.self
        /\ proj_calls = 0
        /\ power_runs = << >>
        /\ nsteps = 0
        /\ X = UnsetArray

\* C4 witness: a PWLS object whose data must be swapped is called without the
\* raw data and the call has raised
C4_Witness ==
    /\ pc = "raised"
    /\ error = "NameError"
    /\ passed.self.datafidelity = "PWLS"
    /\ passed.self.data_swap_list # NoSwap
    /\ ~NormDataMissing
    /\ RawDataMissing

\* C5: in a FISTA call without lipschitz_const the power method has run exactly
\* once before the first outer iteration and the value it returned is the L of
\* every descent step; with lipschitz_const supplied the power method has not
\* run and the supplied value is the L of every descent step.
C5_LipschitzFromPowerMethodOnce ==
    (method = "FISTA" /\ CheckReturned) =>
        /\ IF IsNone(Get(passed.alg, "lipschitz_const"))
           THEN /\ Len(power_runs) = 1
                /\ algorithm["lipschitz_const"] = power_runs[1]
           ELSE /\ power_runs = << >>
                /\ algorithm["lipschitz_const"] = passed.alg["lipschitz_const"]
        /\ pc \in FISTALoop => L_const_inv = Reciprocal(algorithm["lipschitz_const"])
        /\ step # NoStep => step.L = Reciprocal(algorithm["lipschitz_const"])

\* C5 witness: a descent step has been taken with the step size the one run of
\* the power method gave
C5_Witness ==
    /\ method = "FISTA"
    /\ ~Has(passed.alg, "lipschitz_const")
    /\ nsteps > 0
    /\ Len(power_runs) = 1
    /\ step.L = Reciprocal(power_runs[1])

\* the entry of the returned dictionary is the supplied one, or the default
Filled(supplied, returned, key, default) ==
    /\ Has(returned, key)
    /\ returned[key] = IF Has(supplied, key) THEN supplied[key] ELSE default

\* C6: after dicts_check every supplied OS_number, iterations, regul_param,
\* regularisation iterations, ADMM_rho_const and ADMM_relax_par is unchanged and
\* every absent one holds its default: OS_number 1; iterations 200 (SIRT), 30
\* (CGLS), 15 (power, ADMM), 400 (FISTA, one subset), 20 (FISTA, more subsets);
\* regul_param 0.001 and regularisation iterations 150 (FISTA, ADMM);
\* ADMM_rho_const 1000 and ADMM_relax_par 1.0 (ADMM).
C6_DefaultsFilledSuppliedKept ==
    CheckReturned =>
        /\ Filled(passed.data, data, "OS_number", Whole(1))
        /\ Filled(passed.alg, algorithm, "iterations",
                  CASE method = "SIRT" -> Whole(200)
                    [] method = "CGLS" -> Whole(30)
                    [] method \in {"power", "ADMM"} -> Whole(15)
                    [] method = "FISTA" ->
                         IF data["OS_number"] = Whole(1) THEN Whole(400) ELSE Whole(20))
        /\ method \in {"FISTA", "ADMM"} =>
              /\ Filled(passed.reg, regularisation, "regul_param", Num(1, 1000))
              /\ Filled(passed.reg, regularisation, "iterations", Whole(150))
        /\ method = "ADMM" =>
              /\ Filled(passed.alg, algorithm, "ADMM_rho_const", Whole(1000))
              /\ Filled(passed.alg, algorithm, "ADMM_relax_par", Whole(1))

\* C6 witness: FISTA is called with two subsets and a regularisation weight of
\* its own and without iteration counts
C6_Witness ==
    /\ method = "FISTA"
    /\ pc = "fista_outer"
    /\ Get(passed.data, "OS_number") = Whole(2)
    /\ ~Has(passed.alg, "iterations")
    /\ Get(passed.reg, "regul_param") = Num(1, 100)
    /\ algorithm["iterations"] = Whole(20)
    /\ regularisation["regul_param"] = Num(1, 100)
    /\ regularisation["iterations"] = Whole(150)

\* C7: with nonnegativity = True and no regulariser configured, X has no
\* negative element after a completed FISTA subset step, in the image FISTA
\* returns and after the clamp of an ADMM iteration.
C7_NonnegativeWhenEnabled ==
    (/\ method \in {"FISTA", "ADMM"}
     /\ CheckReturned
     /\ Get(passed.alg, "nonnegativity") = Bool(TRUE)
     /\ ~Has(passed.reg, "method")
     /\ error = "none"
     /\ step # NoStep) =>
        /\ X.v >= 0
        /\ pc = "returned" => ret.v >= 0

\* C8: throughout a FISTA run X and X_t have the shape of the geometry, and X
\* is seeded from 'initialise' exactly when its element count is that of the
\* geometry's image or volume.
C8_ShapeIsGeometryShape ==
    (method = "FISTA" /\ pc \in FISTALoop) =>
        /\ X.shape = GeomShape(self)
        /\ X_t.shape = GeomShape(self)
        /\ nsteps = 0 =>
              ((X.src = "initialise") <=>
                   /\ algorithm["initialise"].k = "array"
                   /\ NpSize(algorithm["initialise"]) = Product(GeomShape(self)))

BothThresholds ==
    /\ ~IsNone(Get(passed.data, "huber_threshold"))
    /\ ~IsNone(Get(passed.data, "studentst_threshold"))

\* C9 as stated: a FISTA call with both huber_threshold and studentst_threshold
\* set is rejected before the first iteration.
C9_BothThresholdsRejected ==
    (method = "FISTA" /\ BothThresholds /\ CheckOver) =>
        /\ pc = "raised"
        /\ nsteps = 0
        /\ step = NoStep

\* the NDF_penalty dicts_check refuses
PenaltyUnknown ==
    /\ Has(passed.reg, "NDF_penalty")
    /\ passed.reg["NDF_penalty"].s \notin {S_Huber, S_Perona, S_Tukey}

\* C9 as amended: a FISTA call with both thresholds set is not rejected on that
\* account (dicts_check raises only for missing projection data or an unknown
\* NDF_penalty), and every descent step it takes applies the Huber weight,
\* never the Student-t weight.
C9_HuberTakesPrecedence ==
    (method = "FISTA" /\ BothThresholds /\ CheckOver) =>
        /\ (pc = "raised" /\ error = "NameError") =>
              (NormDataMissing \/ RawDataMissing \/ PenaltyUnknown)
        /\ step # NoStep => step.weight = "huber"

\* C9 witness: a subset step has been completed with both thresholds set
C9_Witness ==
    /\ method = "FISTA"
    /\ BothThresholds
    /\ nsteps > 0
    /\ step.weight = "huber"

\* the regularisation method is a tag that names none of the regularisers
UnknownTag ==
    /\ Has(passed.reg, "method")
    /\ passed.reg["method"].k = "str"
    /\ ProxCalls(passed.reg["method"].s) = << >>

\* C10: a FISTA or ADMM call with a method tag that names no supported
\* regulariser fails; it neither returns an image nor takes a step in which the
\* proximal step runs and leaves the estimate unchanged.
C10_UnknownTagIsFatal ==
    (method \in {"FISTA", "ADMM"} /\ UnknownTag /\ CheckOver) =>
        /\ pc # "returned"
        /\ ~(step.prox_ran /\ step.prox = << >>)

(***************************************************************************)
(* Claims about the loops of FISTA and ADMM.                               *)
(***************************************************************************)
\* the FISTA call is in its loop or has left it by a return
FISTARuns == method = "FISTA" /\ pc \in (FISTALoop \cup {"returned"})

\* the outer iteration whose end iter_end describes
EndedIteration == IF iter_end.stopped THEN iter_no ELSE iter_no - 1

\* the iteration budget of the call
Budget == algorithm["iterations"].n

\* C11: FISTA makes its stopping test only at outer iterations of index > 10
\* with more than one subset and of index > 150 with one subset; it returns
\* only when the budget is used up or at such an iteration; at a tested
\* iteration it stops exactly when the norm of the change is strictly below
\* the tolerance; and with the default tolerance 0 it returns only after
\* exactly 'iterations' outer iterations.
C11_StopOnlyAfterWarmUp ==
    FISTARuns =>
        LET os == data["OS_number"].n
            late(i) == (i > 10 /\ os > 1) \/ (i > 150 /\ os = 1)
        IN /\ iter_end.tested => late(EndedIteration)
           /\ iter_end.tested =>
                 (iter_end.stopped <=>
                     iter_end.nrm * algorithm["tolerance"].d < algorithm["tolerance"].n)
           /\ ~iter_end.tested => ~iter_end.stopped
           /\ pc = "returned" =>
                 \/ ~iter_end.stopped /\ iter_no = Budget
                 \/ iter_end.stopped /\ late(iter_no) /\ iter_no < Budget
           /\ (pc = "returned" /\ ~Has(passed.alg, "tolerance")) => iter_no = Budget

\* C11 witness: a classical run with tolerance 1 has stopped at iteration 151,
\* the first one tested, on a norm of 0
C11_Witness ==
    /\ FISTARuns
    /\ pc = "returned"
    /\ data["OS_number"].n = 1
    /\ iter_end.stopped
    /\ iter_end.nrm = 0
    /\ iter_no = 151

\* C12: an ADMM call that has passed dicts_check raises nothing of its own:
\* it ends by a return, after at most 'iterations' outer iterations, with X in
\* the shape of the geometry, and stops early only at an iteration of index > 5.
C12_ADMMReturnsWithoutRaising ==
    (method = "ADMM" /\ CheckOver) =>
        /\ (pc = "raised" /\ nsteps + proj_calls > 0) =>
               error \in {"ProjectorError", "RegulariserError"}
        /\ pc = "returned" =>
               /\ iter_no <= Budget
               /\ ret.shape = GeomShape(self)
               /\ iter_end.stopped => iter_no > 5

\* the exceptions of the external calls
ExternalErrors == {"ProjectorError", "RegulariserError"}

\* C13: an exception of the projector or of the regulariser during a FISTA or
\* ADMM iteration leaves the method at once: the call ends raised, nothing is
\* returned, and no step, iteration or external call follows.
C13_ExternalErrorPropagates ==
    [][(method \in {"FISTA", "ADMM"} /\ error' \in ExternalErrors) =>
          /\ pc' = "raised"
          /\ ret' = UnsetArray
          /\ error \in ExternalErrors =>
                UNCHANGED <<proj_calls, nsteps, iter_no, X, X_t, ret>>]_vars

\* C13 witness: the regulariser has raised in the second iteration of a run
C13_Witness ==
    /\ method = "FISTA"
    /\ pc = "raised"
    /\ error = "RegulariserError"
    /\ iter_no = 1
    /\ nsteps >= 1
    /\ ret = UnsetArray

\* the messages of progress (methodsIR.py lines 558-562, 568)
ProgressMessages == {"ADMM iteration", "ADMM stopped"}

\* C14: when gmres has stopped at its bound without converging, ADMM goes on
\* with the estimate and something else than the progress messages tells the
\* caller of it.
C14_GmresDiagnosticSurfaced ==
    (method = "ADMM" /\ step.info # 0 /\ error = "none") =>
        printed \ ProgressMessages # {}

\* C15: while ringGH_lambda is None, the ring vector and its extrapolation
\* are zero at every point of every FISTA run.
C15_RingStaysZeroWithoutLambda ==
    (FISTARuns /\ IsNone(data["ringGH_lambda"])) => (r = 0 /\ r_x = 0)

\* C15 witness: a run with two subsets and no ringGH_lambda is in its second
\* outer iteration
C15_Witness ==
    /\ FISTARuns
    /\ IsNone(data["ringGH_lambda"])
    /\ data["OS_number"].n = 2
    /\ iter_no = 1
    /\ pc = "fista_iter_end"

\* C16: the ring update maps an element r_raw with |r_raw| <= ringGH_lambda
\* to 0, and any other element to the value of the same sign whose magnitude
\* is smaller by exactly ringGH_lambda.
C16_SoftThreshold ==
    (method = "FISTA" /\ iter_end.ring_ran) =>
        LET lam == data["ringGH_lambda"].n
            raw == iter_end.r_raw
            new == iter_end.r_new
            mag(x) == IF x < 0 THEN 0 - x ELSE x
        IN /\ mag(raw) <= lam => new = 0
           /\ mag(raw) > lam =>
                 /\ (raw < 0 <=> new < 0)
                 /\ (raw > 0 <=> new > 0)
                 /\ mag(new) = mag(raw) - lam

\* C16 witness: -2 has been shrunk to -1 by a threshold of 1
C16_Witness ==
    /\ method = "FISTA"
    /\ iter_end.ring_ran
    /\ data["ringGH_lambda"].n = 1
    /\ iter_end.r_raw = -2
    /\ iter_end.r_new = -1
    /\ r = -1

\* C19: in every subset step of FISTA the residual that is back-projected is
\* computed from the current X_t, and it holds the term ringGH_accelerate*r_x
\* exactly when ringGH_lambda is set and the outer iteration is not the first.
C19_RingTermInEveryResidual ==
    (method = "FISTA" /\ pc = "fista_iter_end") =>
        /\ step.res_at = t - 1
        /\ step.ring_term <=> (~IsNone(data["ringGH_lambda"]) /\ iter_no >= 1)

\* C20: with ordered subsets and the ring model taking part, the vector the
\* ring correction is made from sums the residuals of all the subsets, each
\* of the X_t the outer iteration started with, before the first image update.
C20_PrecalcOverAllSubsets ==
    (/\ method = "FISTA"
     /\ pc = "fista_subset"
     /\ sub_ind = 0
     /\ data["OS_number"].n > 1
     /\ ~IsNone(data["ringGH_lambda"])
     /\ iter_no >= 1) =>
        /\ vec.subsets = 0..(data["OS_number"].n - 1)
        /\ vec.at = t

\* the operations of a subset step in the order the specification gives
ClaimedStepOrder ==
    <<"residual", "back-projection", "descent", "clamp", "mask", "prox", "momentum",
      "extrapolation">>

Range(seq) == {seq[i] : i \in 1..Len(seq)}

\* ops holds operations of order, each at most once, in the order of order
InOrderOf(ops, order) ==
    /\ Range(ops) \subseteq Range(order)
    /\ \A i, j \in 1..Len(ops) :
          i < j => Position(order, ops[i]) < Position(order, ops[j])

UpTo(n) == [i \in 1..(n + 1) |-> i - 1]

\* the last subset step of the running FISTA call has been completed
StepCompleted == method = "FISTA" /\ pc \in FISTALoop \cup {"returned"} /\ nsteps > 0

\* C24: within an outer FISTA iteration the subsets are processed in index
\* order 0..OS_number-1, each once; a subset step performs, in this order, the
\* residual and its back-projection at X_t, the descent, the clamp, the mask,
\* the proximal call, the update of t and the extrapolation of X_t (the clamp,
\* the mask and the proximal call when they are configured); t is updated once
\* per step and each step reads the X_t the preceding step wrote.
C24_SubsetStepOrder ==
    StepCompleted =>
        /\ InOrderOf(step.ops, ClaimedStepOrder)
        /\ {"residual", "back-projection", "descent", "momentum", "extrapolation"}
              \subseteq Range(step.ops)
        /\ "clamp" \in Range(step.ops) <=> EqualsStr(algorithm["nonnegativity"], S_ENABLE)
        /\ "mask" \in Range(step.ops) <=> ~IsNone(algorithm["mask_diameter"])
        /\ "prox" \in Range(step.ops) <=> ~IsNone(regularisation["method"])
        /\ step.seen = UpTo(step.sub)
        /\ step.sub < data["OS_number"].n
        /\ pc \in {"fista_iter_end", "fista_outer", "returned"} =>
              step.sub = data["OS_number"].n - 1
        /\ pc = "fista_subset" => sub_ind = (step.sub + 1) % data["OS_number"].n
        /\ t = step.t_old + 1
        /\ t = nsteps
        /\ step.read = nsteps - 1
        /\ X_t.wrote = nsteps

\* C24 witness: the second subset step of an iteration with two subsets has
\* performed all eight operations
C24_Witness ==
    /\ StepCompleted
    /\ pc = "fista_iter_end"
    /\ iter_no = 1
    /\ step.seen = <<0, 1>>
    /\ step.ops = ClaimedStepOrder
    /\ step.read = 3

\* C25: a FISTA subset step multiplies the residual by at most one robust
\* weight: the Huber weight (1 where |res| <= threshold, threshold/|res|
\* elsewhere) when huber_threshold is set, otherwise the Student-t weight
\* 2/(threshold^2 + res^2) when studentst_threshold is set, otherwise none;
\* and it back-projects exactly once.
C25_OneWeightOneBackProjection ==
    (method = "FISTA" /\ step # NoStep) =>
        LET huber == data["huber_threshold"]
            student == data["studentst_threshold"]
        IN /\ Len(step.weights) <= 1
           /\ step.backprojs = 1
           /\ IF ~IsNone(huber)
              THEN /\ step.weights = <<"huber">>
                   /\ step.mult = IF Abs(step.res) <= huber.n
                                  THEN [n |-> 1, d |-> 1]
                                  ELSE [n |-> huber.n, d |-> Abs(step.res)]
              ELSE IF ~IsNone(student)
              THEN /\ step.weights = <<"student">>
                   /\ step.mult = [n |-> 2,
                                   d |-> student.n * student.n + step.res * step.res]
              ELSE /\ step.weights = << >>
                   /\ step.mult = << >>

\* C25 witness: a step has applied the Student-t weight to a residual element
\* beyond the threshold, with no Huber threshold set
C25_Witness ==
    /\ method = "FISTA"
    /\ nsteps > 0
    /\ IsNone(data["huber_threshold"])
    /\ step.weights = <<"student">>
    /\ step.res = -2
    /\ step.mult = [n |-> 2, d |-> 5]
    /\ step.backprojs = 1

\* the operations of an ADMM iteration in the order the specification gives
ClaimedADMMOrder == <<"solve", "clamp", "relax", "prox", "dual">>

\* the last iteration of the running ADMM call has been completed
IterationCompleted ==
    method = "ADMM" /\ pc \in ADMMBody \cup {"returned"} /\ nsteps > 0 /\ error = "none"

\* C26: an ADMM iteration with a regularisation method configured performs, in
\* this order, the linear solve, the clamp, the relaxation, the proximal call
\* and the dual update, with x_hat = alpha*x_new + (1 - alpha)*z_prev,
\* z_new = prox(x_hat + u_prev), u_new = u_prev + x_hat - z_new, and the right
\* hand side A^T b + rho*(z_prev - u_prev) of the previous iteration's z and u.
C26_ADMMUpdateOrder ==
    (IterationCompleted /\ ~IsNone(Get(regularisation, "method"))) =>
        LET alpha == algorithm["ADMM_relax_par"].n
            prev == nsteps - 1
        IN /\ InOrderOf(step.ops, ClaimedADMMOrder)
           /\ {"solve", "relax", "prox", "dual"} \subseteq Range(step.ops)
           /\ step.rhs = [rho |-> algorithm["ADMM_rho_const"].n,
                          plus |-> prev, minus |-> prev]
           /\ step.x_hat = [x |-> nsteps, x_coef |-> alpha,
                            z |-> prev, z_coef |-> 1 - alpha]
           /\ step.prox_in = [x_hat |-> nsteps, u |-> prev]
           /\ z = nsteps
           /\ step.dual = [u |-> prev, plus |-> nsteps, minus |-> nsteps]
           /\ u = nsteps

\* C26 witness: the second iteration of a regularised run with relaxation
\* parameter 2 is over
C26_Witness ==
    /\ IterationCompleted
    /\ nsteps = 2
    /\ step.prox = <<S_FGP_TV>>
    /\ step.x_hat = [x |-> 2, x_coef |-> 2, z |-> 1, z_coef |-> -1]
    /\ z = 2

\* C27: in an ADMM run with no regularisation method the proximal step is
\* skipped and z keeps its zeros in every iteration, so the dual update is
\* u <- u + x_hat and the right hand side is A^T b - rho*u.
C27_ZStaysZeroWithoutMethod ==
    (method = "ADMM" /\ CheckReturned /\ error = "none"
     /\ IsNone(Get(regularisation, "method"))) =>
        /\ z = 0
        /\ nsteps > 0 =>
              /\ ~step.prox_ran
              /\ "prox" \notin Range(step.ops)
              /\ step.x_hat.z = 0
              /\ step.dual = [u |-> nsteps - 1, plus |-> nsteps, minus |-> 0]
              /\ step.rhs = [rho |-> algorithm["ADMM_rho_const"].n,
                             plus |-> 0, minus |-> nsteps - 1]

\* C27 witness: the second iteration of a run without a method is over, u has
\* been written twice and z never
C27_Witness ==
    /\ method = "ADMM"
    /\ error = "none"
    /\ nsteps = 2
    /\ Has(regularisation, "method")
    /\ IsNone(regularisation["method"])
    /\ u = 2
    /\ z = 0
    /\ step.rhs.minus = 1

\* the proximal step of the last completed step or iteration has run
ProxRan == method \in {"FISTA", "ADMM"} /\ nsteps > 0 /\ step.prox_ran

\* C28: for each supported regulariser T, prox_regul with method T invokes T
\* once and nothing else; with method T_WAVELETS it invokes T once and then
\* the wavelet soft-threshold with regul_param2; the wavelet step does not run
\* without the suffix.
C28_ProxDispatch ==
    ProxRan =>
        LET tag == regularisation["method"].s
        IN /\ \A T \in SupportedRegularisers :
                 /\ tag = T => step.prox = <<T>>
                 /\ tag = WithWavelets(T) => step.prox = <<T, S_WAVELETS>>
           /\ S_WAVELETS \in Range(step.prox) =>
                 /\ \E T \in SupportedRegularisers : tag = WithWavelets(T)
                 /\ step.wavelet_par = regularisation["regul_param2"]
           /\ S_WAVELETS \notin Range(step.prox) => step.wavelet_par = << >>

\* C28 witness: a step under the tag LLT_ROF_WAVELETS has called LLT_ROF and
\* then the wavelets with the caller's regul_param2
C28_Witness ==
    /\ ProxRan
    /\ method = "FISTA"
    /\ regularisation["method"].s = WithWavelets(S_LLT_ROF)
    /\ step.prox = <<S_LLT_ROF, S_WAVELETS>>
    /\ step.wavelet_par = Num(1, 50)

\* C21: in the extrapolation r_x = r + ((t_old - 1)/t)*(r - r_old) at the end
\* of an outer iteration, r_old is the value r had at the end of the previous
\* outer iteration, in 2D and in 3D, r is the newly thresholded vector, and
\* t_old and t are the momentum values before and after the last subset step.
C21_ExtrapolationFromPreviousEnd ==
    (method = "FISTA" /\ iter_end.ring_ran) =>
        /\ iter_end.r_old = iter_end.r_prev
        /\ iter_end.r_end = iter_end.r_new
        /\ iter_end.t = iter_end.t_old + 1

\* the projection arrays are in the axis order the solvers work in: the swaps
\* of data_swap_list applied once to the arrays the caller supplied
InCanonicalOrder ==
    /\ data["projection_norm_data"].a = CanonicalDataShape(self)
    /\ ~IsNone(Get(data, "projection_raw_data")) =>
          data["projection_raw_data"].a = CanonicalDataShape(self)

\* C22: in every call of FISTA (with or without lipschitz_const), powermethod,
\* ADMM, SIRT and CGLS, in any sequence of calls on the same data dictionary,
\* the projection arrays the method works with are in canonical axis order.
C22_SwappedExactlyOnce == CheckReturned => InCanonicalOrder

\* the _algorithm_ dictionary as the caller built it, before the first call
CallerAlgorithm == IF history = << >> THEN passed.alg ELSE history[1].alg

\* C23: after any sequence of SIRT, CGLS, powermethod, ADMM and FISTA calls on
\* one algorithm dictionary in which the caller never set lipschitz_const,
\* every FISTA call takes its step size from a power-method estimate made
\* in that call and never divides by a lipschitz_const of 0.
C23_StepSizeFromOwnEstimate ==
    (method = "FISTA" /\ CheckReturned /\ ~Has(CallerAlgorithm, "lipschitz_const")) =>
        /\ Len(power_runs) = 1
        /\ algorithm["lipschitz_const"] = power_runs[1]
        /\ algorithm["lipschitz_const"].n # 0
        /\ error # "ZeroDivisionError"

\* the body of FISTA or of ADMM is running, dicts_check having returned
InBody == pc \in FISTABody \cup ADMMBody

\* C29: from the return of dicts_check to the return of FISTA or ADMM the
\* solver writes no entry of _data_, _algorithm_ and _regularisation_ and
\* writes into none of the caller's arrays (the projection data, the
\* 'initialise' array); only its own state changes.
C29_SolverWritesOnlyItsOwnState ==
    [][InBody => /\ data' = data
                 /\ algorithm' = algorithm
                 /\ regularisation' = regularisation
                 /\ written' = {}]_vars

\* C29 witness: a FISTA run that started from the caller's 'initialise' array
\* has clamped its estimate in a step, and the caller's array is untouched
C29_Witness ==
    /\ method = "FISTA"
    /\ pc \in FISTALoop
    /\ nsteps > 0
    /\ NpSize(algorithm["initialise"]) = Product(GeomShape(self))
    /\ EqualsStr(algorithm["nonnegativity"], S_ENABLE)
    /\ "clamp" \in Range(step.ops)
    /\ X.src = "step"
    /\ written = {}
    /\ algorithm["initialise"] = passed.alg["initialise"]

\* powermethod has projected
PowerRan == power # NoPower

\* C30: with more than one subset every projection of powermethod uses the
\* subset-0 operator, and under PWLS the raw-data weights are restricted to
\* the angle indices the projector's subset-0 geometry contains; with one
\* subset every projection uses the full-data operator; it is the operator
\* FISTA applies in the first subset step of an outer iteration.
C30_PowerMethodOperator ==
    PowerRan =>
        /\ ordsub_number > 1 =>
              /\ power.operator = "subset"
              /\ power.sub = 0
              /\ power.angles = proj_indVec[0]
              /\ power.weights = power.angles
        /\ ordsub_number = 1 =>
              /\ power.operator = "full"
              /\ power.angles = AllAngles(angles_tot)
              /\ power.weights = power.angles

====
